---- MODULE Spec2Model ----
(***************************************************************************)
(* Mesh data transfer engine of ShapeKeysAdvanced (src/meshDataTransfer.py) *)
(* as a state machine: one run of SKV_OT_TransferMeshData.execute over a    *)
(* source object, a target object and the transfer settings.                *)
(*                                                                          *)
(* Numbers.  A float is a fixed-point integer with One standing for 1.0;    *)
(* a product is (a * b) \div One and a quotient (a * One) \div b.  The      *)
(* inputs drawn by Init keep every intermediate value exact.  NaN is a      *)
(* distinguished value that every arithmetic operator propagates.           *)
(*                                                                          *)
(* Indices are 1-based: vertex 1 is the code's vertex 0.  An array that the *)
(* code holds as None is the empty sequence (no mesh here is empty).        *)
(*                                                                          *)
(* Scope.  Meshes are triangle meshes whose rest shape lies in the plane    *)
(* z = 0; world matrices are translations; the evaluated ("deformed") mesh  *)
(* options and the driver transfer are switched off.                        *)
(***************************************************************************)
EXTENDS Integers, Sequences, FiniteSets, TLC

VARIABLES
    objs,      \* the scene's objects: "Src" (p.mesh_source) and "Tgt" (active)
    objs0,     \* the objects as they were before execute was called
    p,         \* the settings, active.skv_mesh_data_transfer
    bvh,       \* what the source's BVH tree answers for each target transfer vertex
    td,        \* the MeshDataTransfer instance of the run
    bm_live,   \* the bmesh copies allocated and not yet freed
    lv,        \* the local arrays of the transfer method that ran
    pc,        \* position in execute
    ret,       \* what the transfer method returned
    exc,       \* the exception raised and not yet handled
    result,    \* what execute returned
    reports,   \* what execute reported
    calls,     \* the transfer methods called on the instance so far
    key_data,  \* the add-on's storage on the active object's shape key datablock
    scene,     \* the scene's skv_props (the panel's settings) and skv_global_presets
    guards,    \* the module flags _PRESET_APPLY_GUARD and _GLOBAL_PRESET_APPLY_GUARD
    stack,     \* the calls of preset_apply and global_preset_apply in progress
    last_op,   \* the operator that ran last, with its result and the state before it
    n_ops      \* the operators run so far

\* the add-on's panel state, which the transfer engine leaves alone
addon == <<key_data, scene, guards, stack, last_op, n_ops>>

\* the transfer engine's state, which the panel's operators leave alone
engine == <<objs0, p, bvh, td, bm_live, lv, pc, ret, exc, result, reports, calls>>

vars == <<objs, objs0, p, bvh, td, bm_live, lv, pc, ret, exc, result, reports, calls, key_data, scene, guards, stack, last_op, n_ops>>

----------------------------------------------------------------------------
(* Bounds *)

\* target vertices are placed 0 .. MaxHeight units above the source surface
MaxHeight == 1

\* a caller that keeps the instance calls up to MaxCalls transfer methods
MaxCalls == 2

\* the user runs up to MaxOps operators of the panel
MaxOps == 3

\* the rows of the key list that are clicked: 0 .. MaxKeys
MaxKeys == 2

\* the presets of one shape key datablock
MaxPresets == 2

\* the calls of preset_apply and global_preset_apply inside one another
MaxDepth == 3

----------------------------------------------------------------------------
(* Floats *)

One == 4

Half == One \div 2

NaN == -1000000

IsNaN(x) == x = NaN

FAdd(a, b) == IF IsNaN(a) \/ IsNaN(b) THEN NaN ELSE a + b

FSub(a, b) == IF IsNaN(a) \/ IsNaN(b) THEN NaN ELSE a - b

FMul(a, b) == IF IsNaN(a) \/ IsNaN(b) THEN NaN ELSE (a * b) \div One

\* x / 0: the only quotients taken are those of get_barycentric_coords, whose
\* numerators vanish with the denominator (Cauchy-Schwarz), so 0 / 0 = NaN.
FDiv(a, b) ==
    IF IsNaN(a) \/ IsNaN(b) \/ b = 0 THEN NaN ELSE (a * One) \div b

Zero3 == <<0, 0, 0>>

VAdd(a, b) == <<FAdd(a[1], b[1]), FAdd(a[2], b[2]), FAdd(a[3], b[3])>>

VSub(a, b) == <<FSub(a[1], b[1]), FSub(a[2], b[2]), FSub(a[3], b[3])>>

VScale(a, s) == <<FMul(a[1], s), FMul(a[2], s), FMul(a[3], s)>>

Dot(a, b) == FAdd(FAdd(FMul(a[1], b[1]), FMul(a[2], b[2])), FMul(a[3], b[3]))

Cross(a, b) ==
    << FSub(FMul(a[2], b[3]), FMul(a[3], b[2])),
       FSub(FMul(a[3], b[1]), FMul(a[1], b[3])),
       FSub(FMul(a[1], b[2]), FMul(a[2], b[1])) >>

VHasNaN(a) == IsNaN(a[1]) \/ IsNaN(a[2]) \/ IsNaN(a[3])

\* np.where(np.isnan(x), alt, x), one row
VNanTo(x, alt) ==
    << IF IsNaN(x[1]) THEN alt[1] ELSE x[1],
       IF IsNaN(x[2]) THEN alt[2] ELSE x[2],
       IF IsNaN(x[3]) THEN alt[3] ELSE x[3] >>

\* arrays are sequences of rows
ANanTo(x, alt) == [i \in 1..Len(x) |-> VNanTo(x[i], alt[i])]

\* np.where(cond, a, b) with cond one flag per row (the code's flags are
\* the same in the three columns of a row); cond = None selects b everywhere
AWhere(cond, a, b) ==
    [i \in 1..Len(b) |-> IF cond # <<>> /\ cond[i] THEN a[i] ELSE b[i]]

\* x * mask + alt * (1.0 - mask), rows of vectors, mask one scalar per row
ABlend(x, alt, mask) ==
    [i \in 1..Len(x) |-> VAdd(VScale(x[i], mask[i]), VScale(alt[i], One - mask[i]))]

RECURSIVE Flatten(_)
Flatten(ss) == IF ss = <<>> THEN <<>> ELSE Head(ss) \o Flatten(Tail(ss))

----------------------------------------------------------------------------
(* Utility helpers *)

\* no exception, and an exception as <<type, message>>
NoExc == <<>>

RuntimeError(msg) == <<"RuntimeError", msg>>

\* a faulty _is_mesh_object: any object passes, whatever its type
IsMeshObjectAnyType(os, name) == name # ""

\* _is_mesh_object: the object a name refers to is a mesh; "" is None
IsMeshObject(os, name) == name # "" /\ os[name].type = "MESH"

----------------------------------------------------------------------------
(* MeshData: the accessors over one object                                  *)
(*   o.co              mesh.vertices[i].co                                  *)
(*   o.polys           mesh.polygons, each the vertex indices of its loops  *)
(*   o.uv_active       mesh.uv_layers.active is not None                    *)
(*   o.uv              the active layer's uv per loop, as (u, v, 0)         *)
(*   o.select          mesh.vertices[i].select                              *)
(*   o.keys            mesh.shape_keys.key_blocks (<<>>: shape_keys is None)*)
(*   o.vertex_groups   obj.vertex_groups                                    *)
(*   o.matrix_world    the translation of obj.matrix_world                  *)

v_count(o) == Len(o.co)

shape_keys_names(o) == [i \in 1..Len(o.keys) |-> o.keys[i].name]

get_verts_position(o) == o.co

get_selected_verts(o) ==
    [i \in 1..v_count(o) |-> IF o.select[i] THEN One ELSE 0]

set_verts_position(o, co) == [o EXCEPT !.co = co]

\* the position of the first entry called name in a collection, 0 if none
IndexOf(coll, name) ==
    IF \E i \in 1..Len(coll) : coll[i].name = name
    THEN CHOOSE i \in 1..Len(coll) :
            /\ coll[i].name = name
            /\ \A j \in 1..(i - 1) : coll[j].name # name
    ELSE 0

get_locked_vertex_groups_array(o) ==
    [i \in 1..Len(o.vertex_groups) |-> ~o.vertex_groups[i].lock_weight]

\* the names of every group, locked or not
get_vertex_groups_names_all(o, ignore_locked) ==
    [i \in 1..Len(o.vertex_groups) |-> o.vertex_groups[i].name]

\* None is <<>>
get_vertex_groups_names(o, ignore_locked) ==
    IF o.vertex_groups = <<>> THEN <<>>
    ELSE LET Kept(g) == ~ignore_locked \/ ~g.lock_weight
             kept == SelectSeq(o.vertex_groups, Kept)
         IN  [i \in 1..Len(kept) |-> kept[i].name]

\* one weight per vertex, 0.0 where the vertex is not in the group; None is <<>>
get_vertex_group_weights(o, vertex_group_name) ==
    LET gi == IndexOf(o.vertex_groups, vertex_group_name)
    IN  IF gi = 0 THEN <<>>
        ELSE [i \in 1..v_count(o) |->
                 IF i \in o.vertex_groups[gi].members
                 THEN o.vertex_groups[gi].w[i] ELSE 0]

NewVertexGroup(o, name) ==
    [name |-> name, lock_weight |-> FALSE, members |-> {},
     w |-> [i \in 1..v_count(o) |-> 0]]

\* a NaN weight fails the test value > 0.0 and is not written
set_vertex_group_weights(o, group_name, weights) ==
    LET o1 == IF IndexOf(o.vertex_groups, group_name) # 0 THEN o
              ELSE [o EXCEPT !.vertex_groups = Append(@, NewVertexGroup(o, group_name))]
        gi == IndexOf(o1.vertex_groups, group_name)
        g  == o1.vertex_groups[gi]
        put == {i \in 1..Len(weights) : ~IsNaN(weights[i]) /\ weights[i] > 0}
        g1 == [g EXCEPT !.members = @ \cup put,
                        !.w = [i \in 1..Len(g.w) |->
                                  IF i \in put THEN weights[i] ELSE g.w[i]]]
    IN  [o1 EXCEPT !.vertex_groups[gi] = g1]

get_shape_key_vert_pos(o, shape_key_name) ==
    LET ki == IndexOf(o.keys, shape_key_name)
    IN  IF ki = 0 THEN <<>> ELSE o.keys[ki].co

\* the dict name -> positions, in key order; None and {} are both <<>>
get_shape_keys_vert_pos(o, exclude_muted) ==
    IF o.keys = <<>> THEN <<>>
    ELSE LET Kept(k) == k.name # "Basis" /\ ~(exclude_muted /\ k.mute)
             kept == SelectSeq(o.keys, Kept)
         IN  [i \in 1..Len(kept) |-> [name |-> kept[i].name, co |-> kept[i].co]]

\* a shape_key_add that makes the new key the active one, as the host's
\* interactive operator does
shape_key_add_activating(o, name) ==
    [o EXCEPT !.keys = Append(@,
        [name |-> name, co |-> o.co, mute |-> FALSE,
         slider_min |-> 0, slider_max |-> One, value |-> 0]),
              !.active_shape_key_index = Len(o.keys)]

\* obj.shape_key_add(name, from_mix=False): a key holding the mesh's
\* positions; the object's active shape key index stays
shape_key_add(o, name) ==
    [o EXCEPT !.keys = Append(@,
        [name |-> name, co |-> o.co, mute |-> FALSE,
         slider_min |-> 0, slider_max |-> One, value |-> 0])]

set_position_as_shape_key(o, shape_key_name, co, activate) ==
    LET o1 == IF o.keys = <<>> THEN shape_key_add(o, "Basis") ELSE o
        o2 == IF IndexOf(o1.keys, shape_key_name) # 0 THEN o1
              ELSE shape_key_add(o1, shape_key_name)
        ki == IndexOf(o2.keys, shape_key_name)
        o3 == [o2 EXCEPT !.keys[ki].co = co]
    IN  IF activate
        THEN [o3 EXCEPT !.keys =
                 [k \in 1..Len(o3.keys) |->
                     [o3.keys[k] EXCEPT !.value = IF k = ki THEN One ELSE 0]]]
        ELSE o3

\* a MeshData as __init__ leaves it; transfer_bmesh 0 is None; n_builds
\* counts the transfer meshes ensure_mesh_data has built for it
MeshData(name, uv_space, world_space) ==
    [obj |-> name, uv_space |-> uv_space, world_space |-> world_space,
     bvhtree |-> "None", transfer_bmesh |-> 0,
     verts |-> <<>>, faces |-> <<>>, vertex_map |-> <<>>,
     n_builds |-> 0]

\* a faulty free(): releases only a MeshData whose tree was built
MeshDataFreeBuiltOnly(md, live) ==
    IF md.bvhtree = "None" THEN [md |-> md, live |-> live]
    ELSE [md |-> [md EXCEPT !.transfer_bmesh = 0, !.bvhtree = "None",
                            !.verts = <<>>, !.faces = <<>>, !.vertex_map = <<>>],
          live |-> live \ {md.transfer_bmesh}]

\* live: the bmesh copies allocated and not freed
MeshDataFree(md, live) ==
    [md |-> [md EXCEPT !.transfer_bmesh = 0, !.bvhtree = "None",
                       !.verts = <<>>, !.faces = <<>>, !.vertex_map = <<>>],
     live |-> IF md.transfer_bmesh # 0 THEN live \ {md.transfer_bmesh} ELSE live]

\* a bmesh not in use
NewBMesh(live) == CHOOSE n \in 1..(Cardinality(live) + 1) : n \notin live

\* the loops of the mesh: the vertex index of each, polygon after polygon
Loops(o) == Flatten(o.polys)

\* the loop indices of polygon k
PolyLoops(o, k) ==
    LET start == Len(Flatten(SubSeq(o.polys, 1, k - 1)))
    IN  [j \in 1..Len(o.polys[k]) |-> start + j]

\* Builds transfer_bmesh and the BVH tree once.  The meshes are triangle
\* meshes, so bmesh.ops.triangulate leaves the faces as they are.
\* Returns the MeshData, the live copies and the exception raised.
ensure_mesh_data(md, o, live) ==
    IF md.transfer_bmesh # 0 /\ md.bvhtree # "None"
    THEN [md |-> md, live |-> live, exc |-> NoExc]
    ELSE
      LET bm    == NewBMesh(live)
          live1 == live \cup {bm}
          co    == IF md.world_space
                   THEN [i \in 1..v_count(o) |-> VAdd(o.co[i], o.matrix_world)]
                   ELSE o.co
      IN  IF md.uv_space
          THEN IF ~o.uv_active
               THEN [md |-> [md EXCEPT !.transfer_bmesh = bm, !.n_builds = @ + 1],
                     live |-> live1, exc |-> RuntimeError("UV space sampling requires an active UV map")]
               ELSE LET uv_bm == NewBMesh(live1)
                    IN  [md |-> [md EXCEPT
                                   !.transfer_bmesh = uv_bm,
                                   !.n_builds = @ + 1,
                                   !.verts = o.uv,
                                   !.faces = [k \in 1..Len(o.polys) |-> PolyLoops(o, k)],
                                   !.vertex_map = [li \in 1..Len(Loops(o)) |-> <<Loops(o)[li]>>],
                                   !.bvhtree = "BVH"],
                         live |-> (live1 \cup {uv_bm}) \ {bm}, exc |-> NoExc]
          ELSE [md |-> [md EXCEPT
                          !.transfer_bmesh = bm,
                          !.n_builds = @ + 1,
                          !.verts = co,
                          !.faces = o.polys,
                          !.vertex_map = [i \in 1..Len(co) |-> <<i>>],
                          !.bvhtree = "BVH"],
                live |-> live1, exc |-> NoExc]

----------------------------------------------------------------------------
(* MeshDataTransfer: the transfer engine *)

\* no instance constructed
NoTransfer == [exists |-> FALSE]

\* __init__: the options, the two MeshData and an empty projection cache;
\* n_casts counts the runs of cast_verts
MeshDataTransfer(source, target, uv_space, world_space, search_method, vertex_group, invert_vertex_group, exclude_locked_groups, exclude_muted_shapekeys, snap_to_closest, snap_to_closest_shape_key, restrict_to_selection) ==
    [exists |-> TRUE,
     vertex_group |-> vertex_group,
     invert_vertex_group |-> invert_vertex_group,
     exclude_muted_shapekeys |-> exclude_muted_shapekeys,
     exclude_locked_groups |-> exclude_locked_groups,
     snap_to_closest |-> snap_to_closest,
     snap_to_closest_shapekey |-> snap_to_closest_shape_key,
     restrict_to_selection |-> restrict_to_selection,
     uv_space |-> uv_space,
     world_space |-> world_space,
     search_method |-> IF uv_space THEN "CLOSEST" ELSE search_method,
     source |-> MeshData(source, uv_space, world_space),
     target |-> MeshData(target, uv_space, world_space),
     projection_ready |-> FALSE,
     missed_projections |-> <<>>,
     ray_casted |-> <<>>,
     hit_faces |-> <<>>,
     related_ids |-> <<>>,
     has_zero_area_faces |-> FALSE,
     barycentric_coords |-> <<>>,
     n_casts |-> 0]

\* free(): the target's MeshData, then the source's
TransferFree(t, live) ==
    LET ft == MeshDataFree(t.target, live)
        fs == MeshDataFree(t.source, ft.live)
    IN  [td |-> [t EXCEPT !.target = ft.md, !.source = fs.md], live |-> fs.live]

\* The tree's answer for target transfer vertex k: find_nearest in CLOSEST,
\* ray_cast along the normal and then against it otherwise.
\* [hit, loc, face]; hit FALSE is the code's projection[0] being None.
Projection(t, answers, k) ==
    IF t.search_method = "CLOSEST" THEN answers[k].nearest
    ELSE IF answers[k].ray.hit THEN answers[k].ray ELSE answers[k].ray_back

\* a faulty pass of cast_verts: a miss records nothing
CastVertMissUnrecorded(t, answers, c, k) ==
    LET v_ids == t.target.vertex_map[k]
        proj  == Projection(t, answers, k)
        face  == t.source.faces[proj.face]
        Hit(i) == \E j \in 1..Len(v_ids) : v_ids[j] = i
    IN  IF proj.hit
        THEN [ray_casted |-> [i \in 1..Len(c.ray_casted) |->
                                IF Hit(i) THEN proj.loc ELSE c.ray_casted[i]],
              missed_projections |-> [i \in 1..Len(c.ray_casted) |->
                                IF Hit(i) THEN FALSE ELSE c.missed_projections[i]],
              hit_faces |-> [i \in 1..Len(c.ray_casted) |->
                                IF Hit(i)
                                THEN << t.source.verts[face[1]], t.source.verts[face[2]],
                                        t.source.verts[face[3]] >>
                                ELSE c.hit_faces[i]],
              related_ids |-> [i \in 1..Len(c.ray_casted) |->
                                IF Hit(i)
                                THEN << t.source.vertex_map[face[1]][1],
                                        t.source.vertex_map[face[2]][1],
                                        t.source.vertex_map[face[3]][1] >>
                                ELSE c.related_ids[i]]]
        ELSE c

\* a faulty pass of cast_verts: a vertex that has a hit keeps the triangle and
\* the indices of its first hit
CastVertFirstTriangle(t, answers, c, k) ==
    LET v_ids == t.target.vertex_map[k]
        proj  == Projection(t, answers, k)
        face  == t.source.faces[proj.face]
        Hit(i) == \E j \in 1..Len(v_ids) : v_ids[j] = i
    IN  IF proj.hit
        THEN [ray_casted |-> [i \in 1..Len(c.ray_casted) |->
                                IF Hit(i) THEN proj.loc ELSE c.ray_casted[i]],
              missed_projections |-> [i \in 1..Len(c.ray_casted) |->
                                IF Hit(i) THEN FALSE ELSE c.missed_projections[i]],
              hit_faces |-> [i \in 1..Len(c.ray_casted) |->
                                IF Hit(i) /\ c.missed_projections[i]
                                THEN << t.source.verts[face[1]], t.source.verts[face[2]],
                                        t.source.verts[face[3]] >>
                                ELSE c.hit_faces[i]],
              related_ids |-> [i \in 1..Len(c.ray_casted) |->
                                IF Hit(i) /\ c.missed_projections[i]
                                THEN << t.source.vertex_map[face[1]][1],
                                        t.source.vertex_map[face[2]][1],
                                        t.source.vertex_map[face[3]][1] >>
                                ELSE c.related_ids[i]]]
        ELSE [c EXCEPT !.ray_casted = [i \in 1..Len(c.ray_casted) |->
                                IF Hit(i) THEN t.target.verts[k] ELSE c.ray_casted[i]]]

\* one pass of the loop of cast_verts, over target transfer vertex k
CastVert(t, answers, c, k) ==
    LET v_ids == t.target.vertex_map[k]
        proj  == Projection(t, answers, k)
    IN  IF proj.hit
        THEN LET face == t.source.faces[proj.face]
                 tri  == << t.source.verts[face[1]], t.source.verts[face[2]],
                            t.source.verts[face[3]] >>
                 ids  == << t.source.vertex_map[face[1]][1],
                            t.source.vertex_map[face[2]][1],
                            t.source.vertex_map[face[3]][1] >>
                 Hit(i) == \E j \in 1..Len(v_ids) : v_ids[j] = i
             IN  [ray_casted |-> [i \in 1..Len(c.ray_casted) |->
                                     IF Hit(i) THEN proj.loc ELSE c.ray_casted[i]],
                  missed_projections |-> [i \in 1..Len(c.ray_casted) |->
                                     IF Hit(i) THEN FALSE ELSE c.missed_projections[i]],
                  hit_faces |-> [i \in 1..Len(c.ray_casted) |->
                                     IF Hit(i) THEN tri ELSE c.hit_faces[i]],
                  related_ids |-> [i \in 1..Len(c.ray_casted) |->
                                     IF Hit(i) THEN ids ELSE c.related_ids[i]]]
        ELSE LET Own(i) == \E j \in 1..Len(v_ids) : v_ids[j] = i
             IN  [c EXCEPT !.ray_casted = [i \in 1..Len(c.ray_casted) |->
                                     IF Own(i) THEN t.target.verts[k] ELSE c.ray_casted[i]]]

RECURSIVE CastFrom(_, _, _, _)
CastFrom(t, answers, c, k) ==
    IF k > Len(t.target.verts) THEN c
    ELSE CastFrom(t, answers, CastVert(t, answers, c, k), k + 1)

\* cast_verts: zeros, all missed, then one CastVert per target transfer vertex;
\* related_ids of zeros refer to the source's first vertex
cast_verts(t, answers, count) ==
    CastFrom(t, answers,
             [ray_casted |-> [i \in 1..count |-> Zero3],
              hit_faces |-> [i \in 1..count |-> <<Zero3, Zero3, Zero3>>],
              related_ids |-> [i \in 1..count |-> <<1, 1, 1>>],
              missed_projections |-> [i \in 1..count |-> TRUE]],
             1)

\* the triangle's area vector is (close to) zero
ZeroArea(tri) == Cross(VSub(tri[2], tri[1]), VSub(tri[3], tri[1])) = Zero3

check_zero_area_triangles(triangles) ==
    \E i \in 1..Len(triangles) : ZeroArea(triangles[i])

\* a row whose v and w are taken against the wrong edges
BaryRowSwapped(point, tri) ==
    LET v0 == VSub(tri[2], tri[1])
        v1 == VSub(tri[3], tri[1])
        v2 == VSub(point, tri[1])
        denom == FSub(FMul(Dot(v0, v0), Dot(v1, v1)), FMul(Dot(v0, v1), Dot(v0, v1)))
        v == FDiv(FSub(FMul(Dot(v0, v0), Dot(v2, v1)), FMul(Dot(v0, v1), Dot(v2, v0))), denom)
        w == FDiv(FSub(FMul(Dot(v1, v1), Dot(v2, v0)), FMul(Dot(v0, v1), Dot(v2, v1))), denom)
    IN  <<FSub(FSub(One, v), w), v, w>>

\* one row of get_barycentric_coords
BaryRow(point, tri) ==
    LET v0 == VSub(tri[2], tri[1])
        v1 == VSub(tri[3], tri[1])
        v2 == VSub(point, tri[1])
        d00 == Dot(v0, v0)
        d01 == Dot(v0, v1)
        d11 == Dot(v1, v1)
        d20 == Dot(v2, v0)
        d21 == Dot(v2, v1)
        denom == FSub(FMul(d00, d11), FMul(d01, d01))
        v == FDiv(FSub(FMul(d11, d20), FMul(d01, d21)), denom)
        w == FDiv(FSub(FMul(d00, d21), FMul(d01, d20)), denom)
        u == FSub(FSub(One, v), w)
    IN  <<u, v, w>>

get_barycentric_coords(points, triangles) ==
    [i \in 1..Len(points) |-> BaryRow(points[i], triangles[i])]

\* one row of calculate_barycentric_location
BaryLocation(tri, bary) ==
    VAdd(VAdd(VScale(tri[1], bary[1]), VScale(tri[2], bary[2])),
         VScale(tri[3], bary[3]))

get_transferred_vert_coords(t, transfer_coord) ==
    [i \in 1..Len(t.related_ids) |->
        BaryLocation(<< transfer_coord[t.related_ids[i][1]],
                        transfer_coord[t.related_ids[i][2]],
                        transfer_coord[t.related_ids[i][3]] >>,
                     t.barycentric_coords[i])]

\* ensure_projection_cache from the cast on; c is what cast_verts returned
ProjectionCache(t, live, c) ==
    [td |-> [t EXCEPT
                !.ray_casted = c.ray_casted,
                !.hit_faces = c.hit_faces,
                !.related_ids = c.related_ids,
                !.missed_projections = c.missed_projections,
                !.has_zero_area_faces = check_zero_area_triangles(c.hit_faces),
                !.barycentric_coords =
                    get_barycentric_coords(c.ray_casted, c.hit_faces),
                !.projection_ready = TRUE,
                !.n_casts = @ + 1],
     live |-> live, exc |-> NoExc]

\* ensure_projection_cache: [td, live, exc]
ensure_projection_cache(t, os, answers, live) ==
    IF t.search_method = "TOPOLOGY" \/ t.projection_ready
    THEN [td |-> t, live |-> live, exc |-> NoExc]
    ELSE LET s  == ensure_mesh_data(t.source, os[t.source.obj], live)
             t1 == [t EXCEPT !.source = s.md]
         IN  IF s.exc # NoExc THEN [td |-> t1, live |-> s.live, exc |-> s.exc]
             ELSE LET g  == ensure_mesh_data(t1.target, os[t1.target.obj], s.live)
                      t2 == [t1 EXCEPT !.target = g.md]
                  IN  IF g.exc # NoExc THEN [td |-> t2, live |-> g.live, exc |-> g.exc]
                      ELSE ProjectionCache(t2, g.live,
                               cast_verts(t2, answers, v_count(os[t.target.obj])))

\* a faulty get_vertices_mask: the selection starts as zeros instead of None
get_vertices_mask_zeros(t, os) ==
    LET tgt == os[t.target.obj]
        selection == IF t.restrict_to_selection THEN get_selected_verts(tgt)
                     ELSE [i \in 1..v_count(tgt) |-> 0]
        v_group == get_vertex_group_weights(tgt, t.vertex_group)
    IN  IF t.vertex_group # "" /\ v_group # <<>>
        THEN [i \in 1..Len(v_group) |->
                FMul(IF t.invert_vertex_group THEN One - v_group[i] ELSE v_group[i],
                     IF t.restrict_to_selection THEN selection[i] ELSE One)]
        ELSE selection

\* get_vertices_mask: one scalar per target vertex; None is <<>>
get_vertices_mask(t, os) ==
    LET tgt == os[t.target.obj]
        selection == IF t.restrict_to_selection THEN get_selected_verts(tgt) ELSE <<>>
    IN  IF t.vertex_group # ""
        THEN LET v_group == get_vertex_group_weights(tgt, t.vertex_group)
                 v1 == IF t.invert_vertex_group
                       THEN [i \in 1..Len(v_group) |-> One - v_group[i]]
                       ELSE v_group
             IN  IF v_group = <<>> THEN selection
                 ELSE IF t.restrict_to_selection /\ selection # <<>>
                      THEN [i \in 1..Len(v1) |-> FMul(v1[i], selection[i])]
                      ELSE v1
        ELSE selection

\* |a - b|^2 without rescaling, to compare distances
Dist2(a, b) ==
    (a[1] - b[1]) * (a[1] - b[1]) + (a[2] - b[2]) * (a[2] - b[2])
        + (a[3] - b[3]) * (a[3] - b[3])

\* The source vertices kd.find may return for co: the nearest ones (any of
\* them on a tie); for a co holding NaN no distance compares, so any vertex.
Nearest(co, source_coords) ==
    IF VHasNaN(co) THEN 1..Len(source_coords)
    ELSE {i \in 1..Len(source_coords) :
             \A j \in 1..Len(source_coords) :
                 Dist2(co, source_coords[i]) <= Dist2(co, source_coords[j])}

\* the choices of snap_coords_to_source_verts: one nearest vertex per row
SnapChoices(coords, source_coords) ==
    {f \in [1..Len(coords) -> 1..Len(source_coords)] :
        \A i \in 1..Len(coords) : f[i] \in Nearest(coords[i], source_coords)}

snap_coords_to_source_verts(coords, source_coords, pick) ==
    [i \in 1..Len(coords) |-> source_coords[pick[i]]]

\* transform_vertices_array by a translation
transform_vertices_array(array, mat) ==
    [i \in 1..Len(array) |-> VAdd(array[i], mat)]

----------------------------------------------------------------------------
(* The transfer operations.  Each is computed up to its snapping step by an *)
(* operator; the action then draws what kd.find returns and writes.         *)

\* _topology_validate: the exception raised, if any
topology_validate(t, os) ==
    IF v_count(os[t.source.obj]) # v_count(os[t.target.obj])
    THEN RuntimeError("Topology transfer requires identical vertex counts")
    ELSE NoExc

\* the source's matrix_world alone, the target's inverse left out
SourceToTargetNoInverse(t, os) == os[t.source.obj].matrix_world

\* inverted(target.matrix_world) @ source.matrix_world
SourceToTarget(t, os) ==
    VSub(os[t.source.obj].matrix_world, os[t.target.obj].matrix_world)

\* transfer_vertex_position from the projection cache (epc) to the snapping:
\* the exception raised, or the arrays transferred_position goes through
VertexPositionArrays(t, os, epc) ==
    LET undeformed_verts == get_verts_position(os[t.target.obj])
        base_coords == get_verts_position(os[t.source.obj])
        topo == t.search_method = "TOPOLOGY"
        x == get_transferred_vert_coords(epc.td, base_coords)
        interpolated ==
            IF topo THEN base_coords
            ELSE IF epc.td.has_zero_area_faces THEN ANanTo(x, undeformed_verts) ELSE x
        in_target == IF t.world_space
                     THEN transform_vertices_array(interpolated, SourceToTarget(t, os))
                     ELSE interpolated
        unmissed == AWhere(epc.td.missed_projections, undeformed_verts, in_target)
        masked_vertices == get_vertices_mask(epc.td, os)
        masked == IF masked_vertices # <<>>
                  THEN ABlend(unmissed, undeformed_verts, masked_vertices)
                  ELSE unmissed
    IN  IF epc.exc # NoExc THEN [exc |-> epc.exc, td |-> epc.td, live |-> epc.live]
        ELSE [exc |-> NoExc, td |-> epc.td, live |-> epc.live,
              undeformed_verts |-> undeformed_verts, base_coords |-> base_coords,
              unmissed |-> unmissed, masked_vertices |-> masked_vertices,
              masked |-> masked]

\* transfer_vertex_position up to the snapping
VertexPositionWork(t, os, answers, live) ==
    IF t.search_method = "TOPOLOGY" /\ topology_validate(t, os) # NoExc
    THEN [exc |-> topology_validate(t, os), td |-> t, live |-> live]
    ELSE VertexPositionArrays(t, os, ensure_projection_cache(t, os, answers, live))

\* transfer_shape_keys from the projection cache (epc) to the loop: the
\* exception raised, or the arrays shared by the shape keys
ShapeKeysArrays(t, os, shape_keys, epc) ==
    LET undeformed_verts == get_verts_position(os[t.target.obj])
        base_coords == get_verts_position(os[t.source.obj])
        topo == t.search_method = "TOPOLOGY"
        x == get_transferred_vert_coords(epc.td, base_coords)
        interpolated ==
            IF topo THEN base_coords
            ELSE IF epc.td.has_zero_area_faces THEN ANanTo(x, undeformed_verts) ELSE x
        in_target == IF t.world_space
                     THEN transform_vertices_array(interpolated, SourceToTarget(t, os))
                     ELSE interpolated
        base_transferred_position ==
            AWhere(epc.td.missed_projections, undeformed_verts, in_target)
    IN  IF epc.exc # NoExc
        THEN [ret |-> "", exc |-> epc.exc, td |-> epc.td, live |-> epc.live]
        ELSE [ret |-> "True", exc |-> NoExc, td |-> epc.td, live |-> epc.live,
              shape_keys |-> shape_keys,
              undeformed_verts |-> undeformed_verts, base_coords |-> base_coords,
              base_transferred_position |-> base_transferred_position,
              masked_vertices |-> get_vertices_mask(epc.td, os),
              target_shape_keys |-> get_shape_keys_vert_pos(os[t.target.obj], FALSE)]

\* transfer_shape_keys up to the loop: the return value as well
ShapeKeysWork(t, os, answers, live) ==
    IF get_shape_keys_vert_pos(os[t.source.obj], t.exclude_muted_shapekeys) = <<>>
    THEN [ret |-> "False", exc |-> NoExc, td |-> t, live |-> live]
    ELSE IF t.search_method = "TOPOLOGY" /\ topology_validate(t, os) # NoExc
    THEN [ret |-> "", exc |-> topology_validate(t, os), td |-> t, live |-> live]
    ELSE ShapeKeysArrays(t, os,
             get_shape_keys_vert_pos(os[t.source.obj], t.exclude_muted_shapekeys),
             ensure_projection_cache(t, os, answers, live))

\* the source shape in the space it is sampled in
ShapeKeyPointsWork(t, os, sk_points) ==
    IF t.world_space
    THEN transform_vertices_array(sk_points, os[t.source.obj].matrix_world)
    ELSE sk_points

\* the shape sampled at the target vertices, before any snapping
ShapeKeySampled(t, os, sk_points) ==
    IF t.search_method = "TOPOLOGY" THEN ShapeKeyPointsWork(t, os, sk_points)
    ELSE get_transferred_vert_coords(t, ShapeKeyPointsWork(t, os, sk_points))

\* One pass of the loop of transfer_shape_keys, from the snapping on:
\* the arrays transferred_sk goes through; pick is what kd.find returned.
ShapeKeyPass(t, os, w, sk, pick) ==
    LET sk_points_work == ShapeKeyPointsWork(t, os, sk.co)
        sampled == ShapeKeySampled(t, os, sk.co)
        snapped == IF t.snap_to_closest_shapekey
                   THEN snap_coords_to_source_verts(sampled, sk_points_work, pick)
                   ELSE sampled
        in_target == IF t.world_space
                     THEN transform_vertices_array(snapped,
                              VSub(Zero3, os[t.target.obj].matrix_world))
                     ELSE snapped
        unmissed == AWhere(t.missed_projections, w.undeformed_verts, in_target)
        finite == IF t.has_zero_area_faces
                  THEN ANanTo(unmissed, w.undeformed_verts) ELSE unmissed
        ei == IndexOf(w.target_shape_keys, sk.name)
        blended == IF ei # 0
                   THEN [i \in 1..Len(finite) |->
                            VAdd(w.target_shape_keys[ei].co[i],
                                 VSub(finite[i], w.base_transferred_position[i]))]
                   ELSE finite
        masked == IF w.masked_vertices # <<>>
                  THEN ABlend(blended, w.undeformed_verts, w.masked_vertices)
                  ELSE blended
    IN  [name |-> sk.name, finite |-> finite, blended |-> blended, masked |-> masked]

\* the write of a pass made with activate set, without the slider range
ShapeKeyWriteActivating(os, src, tgt, name, co) ==
    [os EXCEPT ![tgt] = set_position_as_shape_key(os[tgt], name, co, TRUE)]

\* the write that ends a pass: the positions, then the source's slider range
ShapeKeyWrite(os, src, tgt, name, co) ==
    LET o1 == set_position_as_shape_key(os[tgt], name, co, FALSE)
        si == IndexOf(os[src].keys, name)
        ki == IndexOf(o1.keys, name)
    IN  [os EXCEPT ![tgt] =
            [o1 EXCEPT !.keys[ki].slider_min = os[src].keys[si].slider_min,
                       !.keys[ki].slider_max = os[src].keys[si].slider_max]]

\* the loop of transfer_shape_keys over shape_keys[k..]; passes[k] is pass k
RECURSIVE ShapeKeysWriteFrom(_, _, _, _, _)
ShapeKeysWriteFrom(os, src, tgt, passes, k) ==
    IF k > Len(passes) THEN os
    ELSE ShapeKeysWriteFrom(
             ShapeKeyWrite(os, src, tgt, passes[k].name, passes[k].masked),
             src, tgt, passes, k + 1)

\* what kd.find may return in each pass
ShapeKeyPicks(t, os, w) ==
    {picks \in [1..Len(w.shape_keys) ->
                  UNION {SnapChoices(ShapeKeySampled(t, os, w.shape_keys[k].co),
                                     ShapeKeyPointsWork(t, os, w.shape_keys[k].co))
                         : k \in 1..Len(w.shape_keys)}] :
        \A k \in 1..Len(w.shape_keys) :
            picks[k] \in SnapChoices(ShapeKeySampled(t, os, w.shape_keys[k].co),
                                     ShapeKeyPointsWork(t, os, w.shape_keys[k].co))}

\* One pass of the loop of transfer_vertex_groups: the weights handed to
\* set_vertex_group_weights for group_name.
VertexGroupPass(t, os, masked_vertices, group_name) ==
    LET weights == get_vertex_group_weights(os[t.source.obj], group_name)
        topo == t.search_method = "TOPOLOGY"
        wcoord == [i \in 1..Len(weights) |-> <<weights[i], 0, 0>>]
        transferred_coord == get_transferred_vert_coords(t, wcoord)
        transferred == IF topo THEN weights
                       ELSE [i \in 1..Len(transferred_coord) |-> transferred_coord[i][1]]
    IN  IF masked_vertices # <<>>
        THEN [i \in 1..Len(transferred) |->
                 FAdd(FMul(transferred[i], masked_vertices[i]),
                      FMul(IF topo THEN weights[i] ELSE 0, One - masked_vertices[i]))]
        ELSE transferred

RECURSIVE VertexGroupsFrom(_, _, _, _, _, _, _, _)
\* one pass of the loop from the projection cache (epc) on, and the passes
\* after it
VertexGroupsPassFrom(os, answers, masked_vertices, source_groups, k, sent, epc, out) ==
    IF epc.exc # NoExc
    THEN [os |-> os, td |-> epc.td, live |-> epc.live, exc |-> epc.exc, sent |-> sent]
    ELSE VertexGroupsFrom(
             epc.td,
             [os EXCEPT ![epc.td.target.obj] =
                 set_vertex_group_weights(os[epc.td.target.obj], source_groups[k], out)],
             answers, epc.live, masked_vertices, source_groups, k + 1,
             Append(sent, [name |-> source_groups[k], weights |-> out]))

\* the loop of transfer_vertex_groups over source_groups[k..]:
\* [os, td, live, exc, sent], sent the weights handed over so far
VertexGroupsFrom(t, os, answers, live, masked_vertices, source_groups, k, sent) ==
    IF k > Len(source_groups)
    THEN [os |-> os, td |-> t, live |-> live, exc |-> NoExc, sent |-> sent]
    ELSE VertexGroupsPassFrom(
             os, answers, masked_vertices, source_groups, k, sent,
             ensure_projection_cache(t, os, answers, live),
             VertexGroupPass(ensure_projection_cache(t, os, answers, live).td, os,
                             masked_vertices, source_groups[k]))

\* what transfer_vertex_groups returns after its loop
VertexGroupsResult(loop, masked_vertices) ==
    [ret |-> IF loop.exc = NoExc THEN "True" ELSE "", exc |-> loop.exc,
     os |-> loop.os, td |-> loop.td, live |-> loop.live,
     masked_vertices |-> masked_vertices, sent |-> loop.sent]

\* transfer_vertex_groups: [ret, exc, os, td, live, masked_vertices, sent]
VertexGroupsWork(t, os, answers, live) ==
    IF get_vertex_groups_names(os[t.source.obj], t.exclude_locked_groups) = <<>>
    THEN [ret |-> "False", exc |-> NoExc, os |-> os, td |-> t, live |-> live,
          masked_vertices |-> <<>>, sent |-> <<>>]
    ELSE IF t.search_method = "TOPOLOGY" /\ topology_validate(t, os) # NoExc
    THEN [ret |-> "", exc |-> topology_validate(t, os), os |-> os, td |-> t,
          live |-> live, masked_vertices |-> <<>>, sent |-> <<>>]
    ELSE VertexGroupsResult(
             VertexGroupsFrom(
                 t, os, answers, live, get_vertices_mask(t, os),
                 get_vertex_groups_names(os[t.source.obj], t.exclude_locked_groups),
                 1, <<>>),
             get_vertices_mask(t, os))


\* transfer_uvs, through the host's Data Transfer modifier: [exc, os].
\* The host's part is kept abstract: seams is the state of the use_seam flags,
\* uv_from says whose UVs the active layer holds.
UVsWork(t, os) ==
    LET src == t.source.obj
        tgt == t.target.obj
        source_seams == os[src].seams
        os1 == [os EXCEPT ![src].seams = "islands"]
        os2 == [os1 EXCEPT ![tgt].modifiers = Append(@, "Data Transfer")]
        masked_vertex == get_vertices_mask(t, os2)
        temp == (t.vertex_group # "" \/ t.restrict_to_selection) /\ masked_vertex # <<>>
        os3 == IF temp
               THEN [os2 EXCEPT ![tgt] =
                        set_vertex_group_weights(os2[tgt], "Group", masked_vertex)]
               ELSE os2
        Others(m) == m # "Data Transfer"
        os4 == [os3 EXCEPT ![tgt].uv_from = src,
                           ![tgt].seams = os3[src].seams,
                           ![tgt].modifiers = SelectSeq(@, Others)]
        os5 == [os4 EXCEPT ![src].seams = source_seams]
        NotTemp(g) == g.name # "Group"
        os6 == IF temp
               THEN [os5 EXCEPT ![tgt].vertex_groups = SelectSeq(@, NotTemp)]
               ELSE os5
    IN  IF ~os[src].uv_active \/ ~os[tgt].uv_active
        THEN [exc |-> RuntimeError("UV transfer requires an active UV map"), os |-> os2]
        ELSE [exc |-> NoExc, os |-> os6]

----------------------------------------------------------------------------
(* SKV_OT_TransferMeshData *)

NoLocals == [op |-> ""]

\* poll: the active object is a mesh (in object mode) with a source set
poll == IsMeshObject(objs, "Tgt") /\ p.mesh_source # ""

\* execute up to the construction of the MeshDataTransfer
Begin ==
    /\ pc = "idle"
    /\ poll
    /\ IF ~IsMeshObject(objs, p.mesh_source)
       THEN /\ reports' = Append(reports, <<"ERROR", "Invalid source object (must be Mesh).">>)
            /\ result' = "CANCELLED"
            /\ pc' = "done"
            /\ td' = td
       ELSE /\ td' = MeshDataTransfer(
                        p.mesh_source, "Tgt",
                        p.search_method = "UVS",
                        p.mesh_object_space = "WORLD",
                        p.search_method,
                        p.vertex_group_filter,
                        p.invert_vertex_group_filter,
                        p.exclude_locked_groups,
                        p.exclude_muted_shapekeys,
                        p.snap_to_closest,
                        p.snap_to_closest_shapekey,
                        p.restrict_to_edit_selection)
            /\ pc' = "called"
            /\ UNCHANGED <<reports, result>>
    /\ UNCHANGED <<objs, objs0, p, bvh, bm_live, lv, ret, exc, calls>>
    /\ UNCHANGED addon

\* transfer_vertex_position from the snapping on; w is VertexPositionWork
WriteVertexPosition(w) ==
    /\ td' = w.td
    /\ bm_live' = w.live
    /\ exc' = w.exc
    /\ IF w.exc # NoExc
       THEN /\ pc' = "raised"
            /\ UNCHANGED <<objs, lv, ret>>
       ELSE \E pick \in IF td.snap_to_closest
                        THEN SnapChoices(w.masked, w.base_coords)
                        ELSE {<<>>} :
              LET transferred_position ==
                      IF td.snap_to_closest
                      THEN snap_coords_to_source_verts(w.masked, w.base_coords, pick)
                      ELSE w.masked
              IN  /\ objs' = [objs EXCEPT !["Tgt"] =
                         IF p.transfer_shape_as_key
                         THEN set_position_as_shape_key(
                                  objs["Tgt"], "Transferred Position",
                                  transferred_position, TRUE)
                         ELSE set_verts_position(objs["Tgt"], transferred_position)]
                  /\ lv' = [op |-> "transfer_vertex_position",
                            undeformed_verts |-> w.undeformed_verts,
                            unmissed |-> w.unmissed,
                            masked_vertices |-> w.masked_vertices,
                            masked |-> w.masked,
                            written |-> transferred_position]
                  /\ ret' = "True"
                  /\ pc' = "returned"

\* transfer_vertex_position(as_shape_key=p.transfer_shape_as_key)
TransferVertexPosition ==
    /\ pc = "called"
    /\ p.attributes_to_transfer = "SHAPE"
    /\ WriteVertexPosition(VertexPositionWork(td, objs, bvh, bm_live))
    /\ calls' = calls + 1
    /\ UNCHANGED <<objs0, p, bvh, result, reports>>
    /\ UNCHANGED addon

\* the loop of transfer_shape_keys; w is ShapeKeysWork
WriteShapeKeys(w) ==
    /\ td' = w.td
    /\ bm_live' = w.live
    /\ exc' = w.exc
    /\ ret' = w.ret
    /\ IF w.exc # NoExc
       THEN /\ pc' = "raised"
            /\ UNCHANGED <<objs, lv>>
       ELSE IF w.ret = "False"
       THEN /\ pc' = "returned"
            /\ UNCHANGED <<objs, lv>>
       ELSE \E picks \in IF td.snap_to_closest_shapekey
                         THEN ShapeKeyPicks(w.td, objs, w)
                         ELSE {[k \in 1..Len(w.shape_keys) |-> <<>>]} :
              /\ objs' = ShapeKeysWriteFrom(
                             objs, td.source.obj, "Tgt",
                             [k \in 1..Len(w.shape_keys) |->
                                 ShapeKeyPass(w.td, objs, w, w.shape_keys[k], picks[k])],
                             1)
              /\ lv' = [op |-> "transfer_shape_keys",
                        undeformed_verts |-> w.undeformed_verts,
                        base_transferred_position |-> w.base_transferred_position,
                        masked_vertices |-> w.masked_vertices,
                        target_shape_keys |-> w.target_shape_keys,
                        passes |-> [k \in 1..Len(w.shape_keys) |->
                                      ShapeKeyPass(w.td, objs, w, w.shape_keys[k], picks[k])]]
              /\ pc' = "returned"

\* transfer_shape_keys()
TransferShapeKeys ==
    /\ pc = "called"
    /\ p.attributes_to_transfer = "SHAPE_KEYS"
    /\ WriteShapeKeys(ShapeKeysWork(td, objs, bvh, bm_live))
    /\ calls' = calls + 1
    /\ UNCHANGED <<objs0, p, bvh, result, reports>>
    /\ UNCHANGED addon

\* what transfer_vertex_groups leaves; w is VertexGroupsWork
WriteVertexGroups(w) ==
    /\ td' = w.td
    /\ bm_live' = w.live
    /\ exc' = w.exc
    /\ ret' = w.ret
    /\ objs' = w.os
    /\ lv' = IF w.ret = "True"
             THEN [op |-> "transfer_vertex_groups",
                   masked_vertices |-> w.masked_vertices,
                   sent |-> w.sent]
             ELSE lv
    /\ pc' = IF w.exc # NoExc THEN "raised" ELSE "returned"

\* transfer_vertex_groups()
TransferVertexGroups ==
    /\ pc = "called"
    /\ p.attributes_to_transfer = "VERTEX_GROUPS"
    /\ WriteVertexGroups(VertexGroupsWork(td, objs, bvh, bm_live))
    /\ calls' = calls + 1
    /\ UNCHANGED <<objs0, p, bvh, result, reports>>
    /\ UNCHANGED addon

\* what transfer_uvs leaves; w is UVsWork
WriteUVs(w) ==
    /\ exc' = w.exc
    /\ objs' = w.os
    /\ ret' = IF w.exc = NoExc THEN "True" ELSE ""
    /\ lv' = IF w.exc = NoExc THEN [op |-> "transfer_uvs"] ELSE lv
    /\ pc' = IF w.exc # NoExc THEN "raised" ELSE "returned"

\* transfer_uvs()
TransferUVs ==
    /\ pc = "called"
    /\ p.attributes_to_transfer = "UVS"
    /\ WriteUVs(UVsWork(td, objs))
    /\ calls' = calls + 1
    /\ UNCHANGED <<objs0, p, bvh, td, bm_live, result, reports>>
    /\ UNCHANGED addon

\* execute from the except clause on: a RuntimeError is reported and
\* cancels, any other exception propagates; free() runs in every case
End ==
    /\ pc \in {"returned", "raised"}
    /\ LET f == TransferFree(td, bm_live)
       IN  /\ td' = f.td
           /\ bm_live' = f.live
    /\ IF pc = "raised" /\ exc[1] = "RuntimeError"
       THEN /\ reports' = Append(reports, <<"ERROR", exc[2]>>)
            /\ result' = "CANCELLED"
            /\ exc' = NoExc
       ELSE IF pc = "raised"
       THEN UNCHANGED <<reports, result, exc>>
       ELSE /\ result' = "FINISHED"
            /\ UNCHANGED <<reports, exc>>
    /\ pc' = "done"
    /\ UNCHANGED <<objs, objs0, p, bvh, lv, ret, calls>>
    /\ UNCHANGED addon

----------------------------------------------------------------------------
(* The add-on's storage as registration leaves it *)

INIT_GROUP_NAME == "Main"

\* the collections and indices registered on bpy.types.Key, all empty
NewKeyData ==
    [skv_groups |-> << >>,
     skv_group_index |-> 0,
     skv_key_groups |-> << >>,
     skv_selected |-> << >>,
     skv_presets |-> << >>,
     skv_preset_index |-> 0]

\* SKV_Props with its defaults
SKV_Props ==
    [keys_index |-> -1,
     show_select |-> FALSE,
     affix_type |-> "PREFIX",
     affix_value |-> "",
     last_affix_name |-> "",
     last_affix_pending |-> FALSE]

NewScene == [skv_props |-> SKV_Props, skv_global_presets |-> << >>]

\* _PRESET_APPLY_GUARD and _GLOBAL_PRESET_APPLY_GUARD as the modules set them
NoGuards == [preset |-> FALSE, global |-> FALSE]

\* no operator has run
NoOp == [name |-> "", result |-> ""]

----------------------------------------------------------------------------
(* The scenes execute is run on *)

\* the source's rest shape: a triangle; a triangle and a zero-area triangle
\* on its first edge; two loose vertices
SourceCo(g) ==
    CASE g = "Tri"  -> << Zero3, <<One, 0, 0>>, <<0, One, 0>> >>
      [] g = "Mix"  -> << Zero3, <<One, 0, 0>>, <<0, One, 0>>, <<2 * One, 0, 0>> >>
      [] g = "Edge" -> << Zero3, <<One, 0, 0>> >>

SourcePolys(g) ==
    CASE g = "Tri"  -> << <<1, 2, 3>> >>
      [] g = "Mix"  -> << <<1, 2, 3>>, <<1, 2, 4>> >>
      [] g = "Edge" -> << >>

SourceWorld == <<One, 0, 0>>

TargetWorld == <<0, One, 0>>

\* where the target's three vertices sit over the source: the face, the
\* barycentric weights of the foot point and the height above it
Placement(h1, f2) ==
    << [f |-> 1, w |-> <<Half, Half, 0>>, h |-> h1 * One],
       [f |-> f2, w |-> <<0, Half, Half>>, h |-> 0],
       [f |-> 1, w |-> <<0, 0, One>>, h |-> 0] >>

\* the foot point, in the source's local space (over "Edge", which has no
\* face, the points are those over "Tri")
Foot(g, pl) ==
    LET gg == IF g = "Edge" THEN "Tri" ELSE g
        face == SourcePolys(gg)[pl.f]
    IN  BaryLocation(<< SourceCo(gg)[face[1]], SourceCo(gg)[face[2]],
                        SourceCo(gg)[face[3]] >>, pl.w)

\* The shape keys of a mesh: the reference shape comes first, named "Basis"
\* by the host and "Base" where the user renamed it.
Keys(variant, co, delta) ==
    LET basis == [name |-> IF variant \in {"base", "renamed"} THEN "Base" ELSE "Basis",
                  co |-> co, mute |-> FALSE,
                  slider_min |-> 0, slider_max |-> One, value |-> 0]
        smile == [name |-> "Smile",
                  co |-> [i \in 1..Len(co) |-> IF i = 1 \/ delta[1] # 0
                                               THEN VAdd(co[i], delta) ELSE co[i]],
                  mute |-> variant = "muted",
                  slider_min |-> IF delta[1] = 0 THEN 0 - One ELSE 0,
                  slider_max |-> IF delta[1] = 0 THEN 2 * One ELSE One,
                  value |-> Half]
    IN  CASE variant = "none"             -> << >>
          [] variant \in {"basis", "base"} -> << basis >>
          [] OTHER                        -> << basis, smile >>

\* The vertex groups "Arm" and "Leg": "two" adds a locked "Leg" on the last
\* vertex, "other" is an "Arm" of weight 0.5 on every vertex.
ArmGroup(variant, n) ==
    LET arm == [name |-> "Arm", lock_weight |-> variant = "locked",
                members |-> {1, 2},
                w |-> [i \in 1..n |-> IF i <= 2 THEN One ELSE 0]]
        leg == [name |-> "Leg", lock_weight |-> TRUE,
                members |-> {n},
                w |-> [i \in 1..n |-> IF i = n THEN Half ELSE 0]]
        other == [name |-> "Arm", lock_weight |-> FALSE,
                  members |-> 1..n,
                  w |-> [i \in 1..n |-> Half]]
    IN  CASE variant = "none"  -> << >>
          [] variant = "two"   -> << arm, leg >>
          [] variant = "other" -> << other >>
          [] OTHER             -> << arm >>

MaskGroup(weights) ==
    IF weights = << >> THEN << >>
    ELSE << [name |-> "Mask", lock_weight |-> FALSE,
             members |-> {i \in 1..Len(weights) : weights[i] > 0},
             w |-> weights] >>

SourceObject(g, keys, groups, uv_active) ==
    [type |-> "MESH",
     co |-> SourceCo(g),
     polys |-> SourcePolys(g),
     uv_active |-> uv_active,
     uv |-> [li \in 1..Len(Flatten(SourcePolys(g))) |->
                SourceCo(g)[Flatten(SourcePolys(g))[li]]],
     uv_from |-> "Src",
     seams |-> "authored",
     modifiers |-> << >>,
     select |-> [i \in 1..Len(SourceCo(g)) |-> FALSE],
     keys |-> Keys(keys, SourceCo(g), <<0, 0, One>>),
     active_shape_key_index |-> 0,
     vertex_groups |-> ArmGroup(groups, Len(SourceCo(g))),
     matrix_world |-> SourceWorld]

\* a target whose vertices sit over their foot points in the space sampled
\* in; its active shape key is the last one
TargetObject(g, pl, world, keys, arm, mask_weights, select, uv_active) ==
    LET foot == [i \in 1..3 |-> Foot(g, pl[i])]
        co == [i \in 1..3 |->
                  VAdd(VAdd(foot[i], <<0, 0, pl[i].h>>),
                       IF world THEN VSub(SourceWorld, TargetWorld) ELSE Zero3)]
    IN  [type |-> "MESH",
         co |-> co,
         polys |-> << <<1, 2, 3>> >>,
         uv_active |-> uv_active,
         uv |-> foot,
         uv_from |-> "Tgt",
         seams |-> "authored",
         modifiers |-> << >>,
         select |-> select,
         keys |-> Keys(keys, co, <<One, 0, 0>>),
         active_shape_key_index |-> IF Len(Keys(keys, co, <<One, 0, 0>>)) > 1
                                    THEN Len(Keys(keys, co, <<One, 0, 0>>)) - 1 ELSE 0,
         vertex_groups |-> MaskGroup(mask_weights) \o ArmGroup(arm, 3),
         matrix_world |-> TargetWorld]

\* a mesh that is sampled on itself: the source's triangle with its first
\* vertex h1 units up, its UVs the triangle seen from above
SelfObject(h1, keys, arm) ==
    LET co == << <<0, 0, h1 * One>>, <<One, 0, 0>>, <<0, One, 0>> >>
    IN  [type |-> "MESH",
         co |-> co,
         polys |-> << <<1, 2, 3>> >>,
         uv_active |-> TRUE,
         uv |-> SourceCo("Tri"),
         uv_from |-> "Tgt",
         seams |-> "authored",
         modifiers |-> << >>,
         select |-> <<FALSE, FALSE, FALSE>>,
         keys |-> Keys(keys, co, <<One, 0, 0>>),
         active_shape_key_index |-> IF Len(Keys(keys, co, <<One, 0, 0>>)) > 1
                                    THEN Len(Keys(keys, co, <<One, 0, 0>>)) - 1 ELSE 0,
         vertex_groups |-> ArmGroup(arm, 3),
         matrix_world |-> TargetWorld]

Armature ==
    [type |-> "ARMATURE", co |-> << >>, polys |-> << >>, uv_active |-> FALSE,
     uv |-> << >>, uv_from |-> "", seams |-> "", modifiers |-> << >>,
     select |-> << >>, keys |-> << >>, active_shape_key_index |-> 0,
     vertex_groups |-> << >>,
     matrix_world |-> Zero3]

\* The tree's answers: the foot point on the face below, when the source has
\* faces; a ray hits there along the normal ("fwd"), against it ("back") or
\* not at all.
Answers(g, pl, uv_space, world, rays) ==
    LET miss == [hit |-> FALSE, loc |-> Zero3, face |-> 0]
        Hit(k) == [hit |-> TRUE,
                   loc |-> IF world /\ ~uv_space
                           THEN VAdd(Foot(g, pl[k]), SourceWorld)
                           ELSE Foot(g, pl[k]),
                   face |-> pl[k].f]
    IN  [k \in 1..3 |->
            [nearest  |-> IF SourcePolys(g) # << >> THEN Hit(k) ELSE miss,
             ray      |-> IF rays[k] = "fwd" THEN Hit(k) ELSE miss,
             ray_back |-> IF rays[k] = "back" THEN Hit(k) ELSE miss]]

\* The tree's answers when the mesh is sampled on itself: every vertex lies on
\* the mesh's one face, at its own position in the space sampled in.
SelfAnswers(o, uv_space, world, rays) ==
    LET miss == [hit |-> FALSE, loc |-> Zero3, face |-> 0]
        Hit(k) == [hit |-> TRUE,
                   loc |-> IF uv_space THEN o.uv[k]
                           ELSE IF world THEN VAdd(o.co[k], o.matrix_world)
                           ELSE o.co[k],
                   face |-> 1]
    IN  [k \in 1..3 |->
            [nearest  |-> Hit(k),
             ray      |-> IF rays[k] = "fwd" THEN Hit(k) ELSE miss,
             ray_back |-> IF rays[k] = "back" THEN Hit(k) ELSE miss]]

\* a ray cannot hit a face of no area
RayAnswers(method, g, f2) ==
    IF method # "RAYCAST" \/ g = "Edge" THEN {<<"miss", "miss", "miss">>}
    ELSE {[r EXCEPT ![2] = IF f2 = 2 THEN "miss" ELSE @] :
            r \in {<<"fwd", "fwd", "fwd">>, <<"back", "fwd", "fwd">>,
                   <<"miss", "fwd", "miss">>}}

\* the mask settings, with the weights of the target's group "Mask" and the
\* target's selection
MaskSettings ==
    {[vertex_group_filter |-> "", invert |-> FALSE, restrict |-> FALSE,
      weights |-> << >>, select |-> <<FALSE, FALSE, FALSE>>],
     [vertex_group_filter |-> "Missing", invert |-> FALSE, restrict |-> FALSE,
      weights |-> << >>, select |-> <<FALSE, FALSE, FALSE>>],
     [vertex_group_filter |-> "Missing", invert |-> FALSE, restrict |-> TRUE,
      weights |-> << >>, select |-> <<TRUE, FALSE, TRUE>>]}
    \cup {[vertex_group_filter |-> "Mask", invert |-> i, restrict |-> FALSE,
           weights |-> w, select |-> <<FALSE, FALSE, FALSE>>] :
             i \in BOOLEAN,
             w \in {<<0, 0, 0>>, <<One, One, One>>, <<Half, One, 0>>}}
    \cup {[vertex_group_filter |-> "", invert |-> FALSE, restrict |-> TRUE,
           weights |-> << >>, select |-> sel] :
             sel \in {<<FALSE, FALSE, FALSE>>, <<TRUE, TRUE, TRUE>>, <<TRUE, FALSE, TRUE>>}}
    \cup {[vertex_group_filter |-> "Mask", invert |-> i, restrict |-> TRUE,
           weights |-> <<Half, One, 0>>, select |-> <<TRUE, FALSE, TRUE>>] :
             i \in BOOLEAN}

NoOptions ==
    [as_key |-> FALSE, snap |-> FALSE, snap_sk |-> FALSE,
     exclude_muted |-> FALSE, exclude_locked |-> FALSE,
     src_keys |-> "none", tgt_keys |-> "none", src_groups |-> "none", tgt_arm |-> "none"]

\* the options and the attributes the chosen transfer reads
Options(attr) ==
    CASE attr = "SHAPE" ->
            {[NoOptions EXCEPT !.as_key = a, !.snap = s, !.tgt_keys = k] :
                a \in BOOLEAN, s \in BOOLEAN, k \in {"none", "smile"}}
      [] attr = "SHAPE_KEYS" ->
            {[NoOptions EXCEPT !.src_keys = "smile", !.tgt_keys = k, !.snap_sk = s] :
                k \in {"none", "basis", "smile"}, s \in BOOLEAN}
            \cup {[NoOptions EXCEPT !.src_keys = sk[1], !.exclude_muted = sk[2],
                                    !.tgt_keys = sk[3]] :
                    sk \in {<<"none", FALSE, "none">>, <<"none", FALSE, "smile">>,
                            <<"basis", FALSE, "none">>, <<"muted", FALSE, "none">>,
                            <<"muted", TRUE, "none">>, <<"base", FALSE, "none">>,
                            <<"renamed", FALSE, "none">>,
                            <<"renamed", FALSE, "renamed">>,
                            <<"renamed", FALSE, "smile">>}}
      [] attr = "VERTEX_GROUPS" ->
            {[NoOptions EXCEPT !.src_groups = sg[1], !.exclude_locked = sg[2],
                               !.tgt_arm = a] :
                sg \in {<<"none", FALSE>>, <<"arm", FALSE>>, <<"locked", FALSE>>,
                        <<"locked", TRUE>>},
                a \in {"none", "arm"}}
            \cup {[NoOptions EXCEPT !.src_groups = sg[1], !.exclude_locked = sg[2],
                                    !.tgt_arm = sg[3]] :
                    sg \in {<<"two", FALSE, "none">>, <<"two", TRUE, "none">>,
                            <<"two", TRUE, "two">>, <<"arm", FALSE, "other">>}}
      [] OTHER -> {NoOptions}

\* the options every geometry is run with
CoreOptions(attr) ==
    {o \in Options(attr) :
        /\ o.as_key => o.tgt_keys = "smile" /\ ~o.snap
        /\ ~o.as_key => o.tgt_keys \in {"none", "basis"} \/ attr = "SHAPE_KEYS"
        /\ o.src_keys \in {"none", "smile"}
        /\ o.tgt_keys # "basis"
        /\ o.snap_sk => o.tgt_keys = "none"
        /\ o.src_groups \in {"none", "arm"}
        /\ o.tgt_arm \in {"none", "arm"}
        /\ o.tgt_arm = "arm" => o.src_groups = "arm"}

\* the mask settings every geometry is run with
CoreMasks ==
    {mk \in MaskSettings :
        /\ ~mk.restrict /\ ~mk.invert
        /\ mk.vertex_group_filter = "" \/ mk.weights = <<Half, One, 0>>}

Settings(source, method, space, attr, mk, opt) ==
    [mesh_source |-> source,
     mesh_object_space |-> space,
     search_method |-> method,
     attributes_to_transfer |-> attr,
     vertex_group_filter |-> mk.vertex_group_filter,
     invert_vertex_group_filter |-> mk.invert,
     restrict_to_edit_selection |-> mk.restrict,
     transfer_shape_as_key |-> opt.as_key,
     exclude_muted_shapekeys |-> opt.exclude_muted,
     exclude_locked_groups |-> opt.exclude_locked,
     snap_to_closest |-> opt.snap,
     snap_to_closest_shapekey |-> opt.snap_sk]

InitScene(source, src_mesh, method, space, attr, g, h1, f2, rays, mk, uvs, opt) ==
    LET pl == Placement(h1, f2)
        world == space = "WORLD"
        os == [n \in {"Src", "Tgt"} |->
                 IF n = "Src"
                 THEN IF src_mesh
                      THEN SourceObject(g, opt.src_keys, opt.src_groups, uvs[1])
                      ELSE Armature
                 ELSE IF source = "Tgt"
                 THEN SelfObject(h1, opt.tgt_keys, opt.tgt_arm)
                 ELSE TargetObject(g, pl, world, opt.tgt_keys, opt.tgt_arm,
                                   mk.weights, mk.select, uvs[2])]
    IN  /\ objs = os
        /\ objs0 = os
        /\ p = Settings(source, method, space, attr, mk, opt)
        /\ bvh = IF source = "Tgt"
                 THEN SelfAnswers(os["Tgt"], method = "UVS", world, rays)
                 ELSE Answers(g, pl, method = "UVS", world, rays)
        /\ td = NoTransfer
        /\ bm_live = {}
        /\ lv = NoLocals
        /\ pc = "idle"
        /\ ret = ""
        /\ exc = NoExc
        /\ result = ""
        /\ reports = << >>
        /\ calls = 0
        /\ key_data = NewKeyData
        /\ scene = NewScene
        /\ guards = NoGuards
        /\ stack = << >>
        /\ last_op = NoOp
        /\ n_ops = 0

\* Every mask setting and option over the plain triangle, and for vertex
\* groups by topology as well; every search
\* method, space and geometry with the core settings; the meshes without an
\* active UV map; a source that is not a mesh or is not set.  The search
\* method "UVS" is reset when UVs are what is transferred
\* (_update_search_method).
Init ==
    \/ \E attr \in {"SHAPE", "UVS", "SHAPE_KEYS", "VERTEX_GROUPS"},
          h1 \in 0..MaxHeight, mk \in MaskSettings :
       \E opt \in Options(attr) :
          InitScene("Src", TRUE, "CLOSEST", "LOCAL", attr, "Tri", h1, 1,
                    <<"miss", "miss", "miss">>, mk, <<TRUE, TRUE>>, opt)
    \/ \E mk \in MaskSettings, opt \in Options("VERTEX_GROUPS") :
          InitScene("Src", TRUE, "TOPOLOGY", "LOCAL", "VERTEX_GROUPS", "Tri", 0, 1,
                    <<"miss", "miss", "miss">>, mk, <<TRUE, TRUE>>, opt)
    \/ \E method \in {"CLOSEST", "RAYCAST", "TOPOLOGY", "UVS"},
          attr \in {"SHAPE", "UVS", "SHAPE_KEYS", "VERTEX_GROUPS"},
          space \in {"LOCAL", "WORLD"},
          g \in {"Tri", "Mix", "Edge"} :
       \E h1 \in 0..MaxHeight,
          f2 \in IF g = "Mix" THEN {1, 2} ELSE {1},
          mk \in CoreMasks,
          opt \in CoreOptions(attr) :
       \E rays \in RayAnswers(method, g, f2) :
          /\ ~(method = "UVS" /\ attr = "UVS")
          /\ InitScene("Src", TRUE, method, space, attr, g, h1, f2, rays, mk,
                       <<TRUE, TRUE>>, opt)
    \/ \E method \in {"CLOSEST", "RAYCAST", "TOPOLOGY", "UVS"},
          attr \in {"SHAPE", "UVS", "SHAPE_KEYS", "VERTEX_GROUPS"},
          uvs \in {<<TRUE, FALSE>>, <<FALSE, TRUE>>} :
          /\ (method = "UVS") # (attr = "UVS")
          /\ InitScene("Src", TRUE, method, "LOCAL", attr, "Tri", 0, 1,
                       IF method = "RAYCAST" THEN <<"fwd", "fwd", "fwd">>
                       ELSE <<"miss", "miss", "miss">>,
                       CHOOSE mk \in CoreMasks : mk.vertex_group_filter = "",
                       uvs,
                       CHOOSE o \in CoreOptions(attr) :
                          o.src_keys = (IF attr = "SHAPE_KEYS" THEN "smile" ELSE "none")
                          /\ o.src_groups = (IF attr = "VERTEX_GROUPS" THEN "arm" ELSE "none")
                          /\ o.tgt_arm = "none" /\ ~o.snap /\ ~o.snap_sk /\ ~o.as_key
                          /\ o.tgt_keys = "none")
    \/ \E source \in {"", "Src"}, attr \in {"SHAPE", "UVS", "SHAPE_KEYS", "VERTEX_GROUPS"} :
          InitScene(source, FALSE, "CLOSEST", "LOCAL", attr, "Tri", 0, 1,
                    <<"miss", "miss", "miss">>,
                    CHOOSE mk \in CoreMasks : mk.vertex_group_filter = "",
                    <<TRUE, TRUE>>, NoOptions)

Next ==
    \/ Begin
    \/ TransferVertexPosition
    \/ TransferShapeKeys
    \/ TransferVertexGroups
    \/ TransferUVs
    \/ End

Spec == Init /\ [][Next]_vars

----------------------------------------------------------------------------
(* A caller that keeps the MeshDataTransfer and calls several methods on it *)

\* the caller goes on, after a return or a caught exception, to call one of
\* transfer_vertex_position, transfer_shape_keys and transfer_vertex_groups
Again ==
    /\ pc \in {"returned", "raised"}
    /\ calls < MaxCalls
    /\ \E attr \in {"SHAPE", "SHAPE_KEYS", "VERTEX_GROUPS"} :
          p' = [p EXCEPT !.attributes_to_transfer = attr]
    /\ pc' = "called"
    /\ ret' = ""
    /\ exc' = NoExc
    /\ UNCHANGED <<objs, objs0, bvh, td, bm_live, lv, result, reports, calls>>
    /\ UNCHANGED addon

\* The target transferred onto itself, by every search method and in both
\* spaces; a source with a shape key and a vertex group onto a bare target,
\* by every search method; the meshes without an active UV map.
InitCalls ==
    \/ \E method \in {"CLOSEST", "RAYCAST", "TOPOLOGY", "UVS"},
          space \in {"LOCAL", "WORLD"},
          h1 \in 0..MaxHeight,
          opt \in Options("SHAPE") :
       \E rays \in RayAnswers(method, "Tri", 1) :
          InitScene("Tgt", TRUE, method, space, "SHAPE", "Tri", h1, 1, rays,
                    CHOOSE mk \in CoreMasks : mk.vertex_group_filter = "",
                    <<TRUE, TRUE>>, opt)
    \/ \E method \in {"CLOSEST", "RAYCAST", "TOPOLOGY", "UVS"},
          attr \in {"SHAPE", "SHAPE_KEYS", "VERTEX_GROUPS"},
          g \in {"Tri", "Mix"},
          uvs \in {<<TRUE, TRUE>>, <<TRUE, FALSE>>, <<FALSE, TRUE>>} :
       \E rays \in RayAnswers(method, g, 1) :
          /\ uvs # <<TRUE, TRUE>> => method = "UVS" /\ g = "Tri"
          /\ InitScene("Src", TRUE, method, "LOCAL", attr, g, 1, 1, rays,
                       CHOOSE mk \in CoreMasks : mk.vertex_group_filter = "",
                       uvs,
                       [NoOptions EXCEPT !.src_keys = "smile", !.src_groups = "arm"])

NextCalls ==
    \/ Begin
    \/ TransferVertexPosition
    \/ TransferShapeKeys
    \/ TransferVertexGroups
    \/ Again
    \/ End

SpecCalls == InitCalls /\ [][NextCalls]_vars

----------------------------------------------------------------------------
(* A target with a UV seam: two triangles on the edge of vertices 1 and 2,  *)
(* so that in UV space these vertices are reached through two UV vertices.  *)

\* The target's UV vertices, one per loop.  "joined": each at its vertex;
\* "split": the second triangle is an island of its own, its UV vertex of
\* vertex 1 two units out on the x axis.
SeamUVs(layout) ==
    << Zero3, <<One, 0, 0>>, <<0, One, 0>>,
       IF layout = "split" THEN <<2 * One, 0, 0>> ELSE Zero3,
       <<One, 0, 0>>, <<Half, Half, 0>> >>

\* vertex 1 sits h1 units above the source surface, the others on it
SeamObject(layout, h1) ==
    LET co == << <<0, 0, h1 * One>>, <<One, 0, 0>>, <<0, One, 0>>, <<Half, Half, 0>> >>
    IN  [type |-> "MESH",
         co |-> co,
         polys |-> << <<1, 2, 3>>, <<1, 2, 4>> >>,
         uv_active |-> TRUE,
         uv |-> SeamUVs(layout),
         uv_from |-> "Tgt",
         seams |-> "authored",
         modifiers |-> << >>,
         select |-> <<FALSE, FALSE, FALSE, FALSE>>,
         keys |-> << >>,
         active_shape_key_index |-> 0,
         vertex_groups |-> << >>,
         matrix_world |-> TargetWorld]

\* The tree's answers for the points of the seam target.  The point below
\* (x, y, z) on the source's first triangle is (x, y, 0); the point two units
\* out lies on the zero-area triangle of "Mix" and is nearest to the corner
\* (1, 0, 0) of "Tri".  A point on the x axis lies on both triangles of "Mix":
\* the tree answers with the triangle pref.
SeamAnswers(g, points, rays, pref) ==
    LET miss == [hit |-> FALSE, loc |-> Zero3, face |-> 0]
        Hit(k) == LET pt == points[k]
                  IN  IF pt[1] > One
                      THEN IF g = "Mix" THEN [hit |-> TRUE, loc |-> pt, face |-> 2]
                           ELSE [hit |-> TRUE, loc |-> <<One, 0, 0>>, face |-> 1]
                      ELSE [hit |-> TRUE, loc |-> <<pt[1], pt[2], 0>>,
                            face |-> IF g = "Mix" /\ pt[2] = 0 THEN pref ELSE 1]
    IN  [k \in 1..Len(points) |->
            [nearest  |-> IF SourcePolys(g) # << >> THEN Hit(k) ELSE miss,
             ray      |-> IF rays[k] = "fwd" /\ SourcePolys(g) # << >> THEN Hit(k) ELSE miss,
             ray_back |-> IF rays[k] = "back" /\ SourcePolys(g) # << >> THEN Hit(k) ELSE miss]]

\* Shapes transferred onto the seam target by CLOSEST, RAYCAST and UVS.
InitCast ==
    \E method \in {"CLOSEST", "RAYCAST", "UVS"},
       g \in {"Tri", "Mix", "Edge"},
       layout \in {"joined", "split"},
       h1 \in 0..MaxHeight,
       pref \in {1, 2},
       rays \in {<<"fwd", "fwd", "fwd", "fwd">>, <<"back", "miss", "fwd", "back">>,
                 <<"miss", "miss", "miss", "miss">>} :
       LET tgt == SeamObject(layout, h1)
           os == [n \in {"Src", "Tgt"} |->
                    IF n = "Src" THEN SourceObject(g, "none", "none", TRUE) ELSE tgt]
       IN  /\ method # "RAYCAST" => rays = <<"miss", "miss", "miss", "miss">>
           /\ g # "Mix" => pref = 1
           /\ method # "UVS" => layout = "joined"
           /\ objs = os
           /\ objs0 = os
           /\ p = Settings("Src", method, "LOCAL", "SHAPE",
                           CHOOSE mk \in CoreMasks : mk.vertex_group_filter = "", NoOptions)
           /\ bvh = SeamAnswers(g, IF method = "UVS" THEN tgt.uv ELSE tgt.co,
                                IF method = "UVS" THEN rays \o <<"miss", "miss">> ELSE rays,
                                pref)
           /\ td = NoTransfer
           /\ bm_live = {}
           /\ lv = NoLocals
           /\ pc = "idle"
           /\ ret = ""
           /\ exc = NoExc
           /\ result = ""
           /\ reports = << >>
           /\ calls = 0
           /\ key_data = NewKeyData
           /\ scene = NewScene
           /\ guards = NoGuards
           /\ stack = << >>
           /\ last_op = NoOp
           /\ n_ops = 0

NextCast ==
    \/ Begin
    \/ TransferVertexPosition
    \/ End

SpecCast == InitCast /\ [][NextCast]_vars

----------------------------------------------------------------------------
(* Strings.  A name is a string; what Python does with its characters       *)
(* (strip, split, startswith, endswith, formatting) is done on Chars.       *)

\* the characters of every string the panel meets here
Chars(s) ==
    CASE s = ""        -> << >>
      [] s = " "       -> << " " >>
      [] s = " ; "     -> << " ", ";", " " >>
      [] s = "Main"    -> << "M", "a", "i", "n" >>
      [] s = "Init"    -> << "I", "n", "i", "t" >>
      [] s = "Arms"    -> << "A", "r", "m", "s" >>
      [] s = " Arms "  -> << " ", "A", "r", "m", "s", " " >>
      [] s = "Basis"   -> << "B", "a", "s", "i", "s" >>
      [] s = "L_up"    -> << "L", "_", "u", "p" >>
      [] s = "R_up"    -> << "R", "_", "u", "p" >>
      [] s = "L_"      -> << "L", "_" >>
      [] s = "L_,"     -> << "L", "_", "," >>
      [] s = " L_, "   -> << " ", "L", "_", ",", " " >>
      [] s = "_up"     -> << "_", "u", "p" >>
      [] s = "x_"      -> << "x", "_" >>
      [] s = "P"       -> << "P" >>
      [] s = "P 2"     -> << "P", " ", "2" >>
      [] s = "P 3"     -> << "P", " ", "3" >>
      [] s = "Src"     -> << "S", "r", "c" >>
      [] s = "Tgt"     -> << "T", "g", "t" >>

Strings == {"", " ", " ; ", "Main", "Init", "Arms", " Arms ", "Basis", "L_up", "R_up", "L_", "L_,", " L_, ", "_up", "x_", "P", "P 2", "P 3", "Src", "Tgt"}

\* the string of the characters cs
FromChars(cs) == CHOOSE s \in Strings : Chars(s) = cs

RECURSIVE StripChars(_)
StripChars(cs) ==
    IF cs = << >> THEN cs
    ELSE IF Head(cs) = " " THEN StripChars(Tail(cs))
    ELSE IF cs[Len(cs)] = " " THEN StripChars(SubSeq(cs, 1, Len(cs) - 1))
    ELSE cs

\* str.strip()
Strip(s) == FromChars(StripChars(Chars(s)))

\* str.startswith and str.endswith, on characters
StartsWith(cs, t) == Len(t) <= Len(cs) /\ SubSeq(cs, 1, Len(t)) = t

EndsWith(cs, t) == Len(t) <= Len(cs) /\ SubSeq(cs, Len(cs) - Len(t) + 1, Len(cs)) = t

\* re.split(r"[;,]+", text) from character i on: cur is the part being read
RECURSIVE SplitFrom(_, _, _)
SplitFrom(cs, i, cur) ==
    IF i > Len(cs) THEN << cur >>
    ELSE IF cs[i] \in {";", ","}
    THEN IF i > 1 /\ cs[i - 1] \in {";", ","}
         THEN SplitFrom(cs, i + 1, cur)
         ELSE << cur >> \o SplitFrom(cs, i + 1, << >>)
    ELSE SplitFrom(cs, i + 1, Append(cur, cs[i]))

\* parse_tokens: the parts between commas and semicolons, trimmed, the empty
\* ones dropped; each token as its characters
parse_tokens(text) ==
    IF text = "" THEN << >>
    ELSE LET parts == SplitFrom(Chars(text), 1, << >>)
             trimmed == [k \in 1..Len(parts) |-> StripChars(parts[k])]
         IN  SelectSeq(trimmed, LAMBDA t : t # << >>)

\* f"{base} {suffix}" for a suffix of one digit
WithSuffix(base, suffix) ==
    FromChars(Chars(base) \o << " " >> \o
              << CASE suffix = 2 -> "2" [] suffix = 3 -> "3" >>)

----------------------------------------------------------------------------
(* common.py: the storage on the shape key datablock.  key_blocks is the    *)
(* active object's keys; a group is its name; the datablock is local.       *)

\* the sequence without its element i
RemoveAt(seq, i) == SubSeq(seq, 1, i - 1) \o SubSeq(seq, i + 1, Len(seq))

\* the elements of a sequence
Range(seq) == {seq[i] : i \in 1..Len(seq)}

\* the names of the key blocks
KeyNames(keys) == [k \in 1..Len(keys) |-> keys[k].name]

group_names(kd) == kd.skv_groups

is_initialized(kd) == INIT_GROUP_NAME \in Range(kd.skv_groups)

\* the index is 0-based, as in the code
IndexValid(idx, coll) == 0 <= idx /\ idx < Len(coll)

\* Normalises the legacy group "Init": its mapping entries go to "Main"; the
\* groups "Init" are removed when "Main" exists, else the first becomes "Main"
\* and the others are removed; then the index is put in range.
cleanup_legacy_init_group(kd) ==
    IF kd.skv_groups = << >> THEN kd
    ELSE
      LET init_indices == {i \in 1..Len(kd.skv_groups) : kd.skv_groups[i] = "Init"}
          has_main == INIT_GROUP_NAME \in Range(kd.skv_groups)
          first == CHOOSE i \in init_indices : \A j \in init_indices : i <= j
          remapped == [k \in 1..Len(kd.skv_key_groups) |->
                          IF kd.skv_key_groups[k].group = "Init"
                          THEN [kd.skv_key_groups[k] EXCEPT !.group = INIT_GROUP_NAME]
                          ELSE kd.skv_key_groups[k]]
          kept == {i \in 1..Len(kd.skv_groups) :
                      i \notin init_indices \/ (~has_main /\ i = first)}
          Nth(n) == CHOOSE i \in kept : Cardinality({j \in kept : j < i}) = n - 1
          groups == [n \in 1..Cardinality(kept) |->
                        IF kd.skv_groups[Nth(n)] = "Init" THEN INIT_GROUP_NAME
                        ELSE kd.skv_groups[Nth(n)]]
      IN  IF init_indices = {} THEN kd
          ELSE [kd EXCEPT !.skv_key_groups = remapped,
                          !.skv_groups = groups,
                          !.skv_group_index = IF IndexValid(@, groups) THEN @ ELSE 0]

get_selected_group_name(kd) ==
    IF kd.skv_groups = << >> THEN INIT_GROUP_NAME
    ELSE IF IndexValid(kd.skv_group_index, kd.skv_groups)
    THEN IF kd.skv_groups[kd.skv_group_index + 1] # ""
         THEN kd.skv_groups[kd.skv_group_index + 1] ELSE INIT_GROUP_NAME
    ELSE INIT_GROUP_NAME

\* the group of the first mapping entry of the key, "Main" without one
kd_get_group(kd, kb_name) ==
    IF kb_name = "" THEN INIT_GROUP_NAME
    ELSE LET hits == {k \in 1..Len(kd.skv_key_groups) : kd.skv_key_groups[k].name = kb_name}
         IN  IF hits = {} THEN INIT_GROUP_NAME
             ELSE LET it == kd.skv_key_groups[CHOOSE k \in hits : \A j \in hits : k <= j]
                  IN  IF it.group # "" THEN it.group ELSE INIT_GROUP_NAME

\* a faulty kd_set_group: an entry is added whether or not the key has one
kd_set_group_append(kd, kb_name, group_name) ==
    IF kb_name = "" THEN kd
    ELSE [kd EXCEPT !.skv_key_groups =
             Append(@, [name |-> kb_name,
                        group |-> IF group_name # "" THEN group_name ELSE INIT_GROUP_NAME])]

\* sets the group of the first mapping entry of the key, or adds an entry
kd_set_group(kd, kb_name, group_name) ==
    IF kb_name = "" THEN kd
    ELSE LET g == IF group_name # "" THEN group_name ELSE INIT_GROUP_NAME
             hits == {k \in 1..Len(kd.skv_key_groups) : kd.skv_key_groups[k].name = kb_name}
         IN  IF hits = {}
             THEN [kd EXCEPT !.skv_key_groups = Append(@, [name |-> kb_name, group |-> g])]
             ELSE [kd EXCEPT !.skv_key_groups[CHOOSE k \in hits : \A j \in hits : k <= j].group = g]

kd_prune_group_map(kd, valid_names) ==
    [kd EXCEPT !.skv_key_groups = SelectSeq(@, LAMBDA it : it.name \in valid_names)]

kd_selected_set(kd) == {n \in Range(kd.skv_selected) : n # ""}

kd_is_selected(kd, kb_name) == kb_name # "" /\ kb_name \in Range(kd.skv_selected)

\* adds the name unless it is selected already; removes its first occurrence
kd_set_selected(kd, kb_name, state) ==
    IF kb_name = "" THEN kd
    ELSE IF state
    THEN IF kd_is_selected(kd, kb_name) THEN kd
         ELSE [kd EXCEPT !.skv_selected = Append(@, kb_name)]
    ELSE LET hits == {i \in 1..Len(kd.skv_selected) : kd.skv_selected[i] = kb_name}
         IN  IF hits = {} THEN kd
             ELSE [kd EXCEPT !.skv_selected =
                      RemoveAt(@, CHOOSE i \in hits : \A j \in hits : i <= j)]

kd_clear_selected(kd) == [kd EXCEPT !.skv_selected = << >>]

\* clear_selection_ui; setting show_select runs show_select_update, which
\* clears the selection again.  [kd, scene]
clear_selection_ui(kd, sc) ==
    [kd |-> kd_clear_selected(kd),
     scene |-> [sc EXCEPT !.skv_props.show_select = FALSE]]

\* the loop of ensure_init_setup_write that sends every key of a missing
\* group to "Main", from key block k on
RECURSIVE RegroupFrom(_, _, _, _)
RegroupFrom(kd, names, key_names, k) ==
    IF k > Len(key_names) THEN kd
    ELSE RegroupFrom(IF kd_get_group(kd, key_names[k]) \notin Range(names)
                     THEN kd_set_group(kd, key_names[k], INIT_GROUP_NAME)
                     ELSE kd,
                     names, key_names, k + 1)

\* ensure_init_setup_write: legacy cleanup, "Main" added when missing, the
\* index put in range, the mapping pruned and completed
ensure_init_setup_write(kd, keys) ==
    IF keys = << >> THEN kd
    ELSE LET c  == cleanup_legacy_init_group(kd)
             g  == IF INIT_GROUP_NAME \notin Range(group_names(c))
                   THEN [c EXCEPT !.skv_groups = Append(@, INIT_GROUP_NAME)]
                   ELSE c
             ix == [g EXCEPT !.skv_group_index = IF IndexValid(@, g.skv_groups) THEN @ ELSE 0]
             pr == kd_prune_group_map(ix, Range(KeyNames(keys)))
         IN  RegroupFrom(pr, group_names(g), KeyNames(keys), 1)

_is_basis_name(keys, name) == keys # << >> /\ keys[1].name = name

----------------------------------------------------------------------------
(* The panel's operators (groups.py, presets.py).  The active object is     *)
(* "Tgt"; its shape key datablock exists and is local.  The search field of *)
(* the key list is empty.                                                   *)

\* an operator's execute ends: its result, and what it left of the storage,
\* the scene and the key blocks
Finish(name, res, kd, sc, keys) ==
    /\ key_data' = kd
    /\ scene' = sc
    /\ objs' = [objs EXCEPT !["Tgt"].keys = keys]
    /\ last_op' = [name |-> name, result |-> res]
    /\ n_ops' = n_ops + 1
    /\ UNCHANGED <<guards, stack>>
    /\ UNCHANGED engine

\* the panel is idle: no operator and no slider callback is running
Idle == stack = << >> /\ n_ops < MaxOps

\* the names the dialogs are given for a group and for a preset
GroupNameInputs == {" Arms ", "Init", "Main", " "}

PresetNameInputs == {"P", " "}

\* obj.shape_key_remove(kb) for key block k
shape_key_remove(o, k) ==
    [o EXCEPT !.keys = RemoveAt(@, k),
              !.active_shape_key_index = IF @ >= Len(o.keys) - 1 /\ @ > 0 THEN @ - 1 ELSE @]

\* the first key block of that name, 0 without one
KeyIndex(keys, name) ==
    IF \E k \in 1..Len(keys) : keys[k].name = name
    THEN CHOOSE k \in 1..Len(keys) : keys[k].name = name /\ \A j \in 1..(k - 1) : keys[j].name # name
    ELSE 0

\* SKV_OT_InitRescan.execute
SKV_OT_InitRescan ==
    /\ Idle
    /\ Finish("init_rescan", "FINISHED",
              ensure_init_setup_write(key_data, objs["Tgt"].keys), scene, objs["Tgt"].keys)

\* SKV_OT_ShapeKeyDelete.execute
SKV_OT_ShapeKeyDelete ==
    /\ Idle
    /\ \E key_name \in {"Basis", "L_up", "R_up"} :
         LET keys == objs["Tgt"].keys
             k    == KeyIndex(keys, key_name)
         IN  IF k = 0 \/ keys[k].name = "Basis"
             THEN Finish("shape_key_delete", "CANCELLED", key_data, scene, keys)
             ELSE LET o == shape_key_remove(objs["Tgt"], k)
                  IN  /\ key_data' = ensure_init_setup_write(key_data, o.keys)
                      /\ scene' = [scene EXCEPT !.skv_props.keys_index = IF @ < 0 THEN 0 ELSE @]
                      /\ objs' = [objs EXCEPT !["Tgt"] = o]
                      /\ last_op' = [name |-> "shape_key_delete", result |-> "FINISHED"]
                      /\ n_ops' = n_ops + 1
                      /\ UNCHANGED <<guards, stack>>
                      /\ UNCHANGED engine

\* SKV_OT_KeyToggleSelect.execute
SKV_OT_KeyToggleSelect ==
    /\ Idle
    /\ \E key_index \in 0..MaxKeys :
         LET keys == objs["Tgt"].keys
         IN  Finish("key_toggle_select", "FINISHED",
                    IF IndexValid(key_index, keys)
                    THEN kd_set_selected(key_data, keys[key_index + 1].name,
                                         ~kd_is_selected(key_data, keys[key_index + 1].name))
                    ELSE key_data,
                    scene, keys)

\* the loop of SKV_OT_SelectVisible over the key blocks from k on
RECURSIVE SelectVisibleFrom(_, _, _, _, _)
SelectVisibleFrom(kd, key_names, selected_group, mode, k) ==
    IF k > Len(key_names) THEN kd
    ELSE SelectVisibleFrom(
             IF kd_get_group(kd, key_names[k]) # selected_group THEN kd
             ELSE kd_set_selected(kd, key_names[k],
                     CASE mode = "ALL" -> TRUE
                       [] mode = "NONE" -> FALSE
                       [] OTHER -> ~kd_is_selected(kd, key_names[k])),
             key_names, selected_group, mode, k + 1)

\* SKV_OT_SelectVisible.execute
SKV_OT_SelectVisible ==
    /\ Idle
    /\ \E mode \in {"ALL", "NONE", "INVERT"} :
         Finish("select_visible", "FINISHED",
                SelectVisibleFrom(key_data, KeyNames(objs["Tgt"].keys),
                                  get_selected_group_name(key_data), mode, 1),
                scene, objs["Tgt"].keys)

\* match of SKV_OT_SelectByAffix
AffixMatch(affix_type, tokens, name) ==
    \E t \in 1..Len(tokens) :
        IF affix_type = "PREFIX" THEN StartsWith(Chars(name), tokens[t])
        ELSE EndsWith(Chars(name), tokens[t])

\* the loop of SKV_OT_SelectByAffix over the key blocks from k on
RECURSIVE SelectByAffixFrom(_, _, _, _, _, _)
SelectByAffixFrom(kd, key_names, selected_group, affix_type, tokens, k) ==
    IF k > Len(key_names) THEN kd
    ELSE SelectByAffixFrom(
             IF kd_get_group(kd, key_names[k]) = selected_group
                /\ AffixMatch(affix_type, tokens, key_names[k])
             THEN kd_set_selected(kd, key_names[k], TRUE)
             ELSE kd,
             key_names, selected_group, affix_type, tokens, k + 1)

\* SKV_OT_SelectByAffix.execute
SKV_OT_SelectByAffix ==
    /\ Idle
    /\ LET keys == objs["Tgt"].keys
           props == scene.skv_props
           raw_affix == props.affix_value
           tokens == parse_tokens(raw_affix)
           cleared == kd_clear_selected(key_data)
           kd == SelectByAffixFrom(cleared, KeyNames(keys), get_selected_group_name(key_data),
                                   props.affix_type, tokens, 1)
       IN  IF ~is_initialized(key_data)
           THEN Finish("select_by_affix", "CANCELLED", key_data, scene, keys)
           ELSE IF tokens = << >>
           THEN Finish("select_by_affix", "CANCELLED", key_data, scene, keys)
           ELSE IF kd.skv_selected = << >>
           THEN Finish("select_by_affix", "CANCELLED", kd, scene, keys)
           ELSE Finish("select_by_affix", "FINISHED", kd,
                       [scene EXCEPT !.skv_props.last_affix_name = Strip(raw_affix),
                                     !.skv_props.last_affix_pending = TRUE,
                                     !.skv_props.affix_value = ""],
                       keys)

\* the loop that sets the group of every selected key block, from k on:
\* [kd, moved]
RECURSIVE MoveFrom(_, _, _, _, _, _)
MoveFrom(kd, key_names, selected, group, k, moved) ==
    IF k > Len(key_names) THEN [kd |-> kd, moved |-> moved]
    ELSE IF key_names[k] \in selected
    THEN MoveFrom(kd_set_group(kd, key_names[k], group), key_names, selected, group, k + 1, moved + 1)
    ELSE MoveFrom(kd, key_names, selected, group, k + 1, moved)

\* SKV_OT_MoveSelectedToGroup.execute
SKV_OT_MoveSelectedToGroup ==
    /\ Idle
    /\ \E group_in \in {"Main", "Init", "Arms"} :
         LET keys == objs["Tgt"].keys
             kd0 == ensure_init_setup_write(key_data, keys)
             group == IF group_in \notin Range(group_names(kd0)) THEN INIT_GROUP_NAME ELSE group_in
             selected == kd_selected_set(kd0)
             m == MoveFrom(kd0, KeyNames(keys), selected, group, 1, 0)
             c == clear_selection_ui(m.kd, scene)
         IN  IF selected = {} \/ m.moved = 0
             THEN Finish("move_selected_to_group", "CANCELLED", kd0, scene, keys)
             ELSE Finish("move_selected_to_group", "FINISHED", c.kd, c.scene, keys)

\* the loop of SKV_OT_ResetGroupValues over the key blocks: the keys with the
\* selected ones of the group at value 0
ResetValues(kd, keys, selected, group_name) ==
    [k \in 1..Len(keys) |->
        IF keys[k].name \in selected /\ kd_get_group(kd, keys[k].name) = group_name
        THEN [keys[k] EXCEPT !.value = 0] ELSE keys[k]]

\* SKV_OT_ResetGroupValues.execute
SKV_OT_ResetGroupValues ==
    /\ Idle
    /\ LET keys == objs["Tgt"].keys
           kd0 == ensure_init_setup_write(key_data, keys)
           group_name == get_selected_group_name(kd0)
           selected == kd_selected_set(kd0)
           changed == {k \in 1..Len(keys) : keys[k].name \in selected
                                            /\ kd_get_group(kd0, keys[k].name) = group_name}
       IN  IF ~is_initialized(key_data)
           THEN Finish("reset_group_values", "CANCELLED", key_data, scene, keys)
           ELSE IF selected = {} \/ changed = {}
           THEN Finish("reset_group_values", "CANCELLED", kd0, scene, keys)
           ELSE Finish("reset_group_values", "FINISHED", kd_clear_selected(kd0), scene,
                       ResetValues(kd0, keys, selected, group_name))

\* SKV_OT_GroupAdd.execute
SKV_OT_GroupAdd ==
    /\ Idle
    /\ \E name \in GroupNameInputs :
         LET keys == objs["Tgt"].keys
             kd0 == ensure_init_setup_write(key_data, keys)
             new_name == Strip(name)
         IN  IF new_name = "" \/ new_name \in Range(group_names(kd0))
             THEN Finish("group_add", "CANCELLED", kd0, scene, keys)
             ELSE Finish("group_add", "FINISHED",
                         [kd0 EXCEPT !.skv_groups = Append(@, new_name)], scene, keys)

\* the loop that moves the keys of group old to group new, from key block k on
RECURSIVE RemapFrom(_, _, _, _, _)
RemapFrom(kd, key_names, old, new, k) ==
    IF k > Len(key_names) THEN kd
    ELSE RemapFrom(IF kd_get_group(kd, key_names[k]) = old
                   THEN kd_set_group(kd, key_names[k], new) ELSE kd,
                   key_names, old, new, k + 1)

\* SKV_OT_GroupRemove.execute
SKV_OT_GroupRemove ==
    /\ Idle
    /\ LET keys == objs["Tgt"].keys
           kd0 == ensure_init_setup_write(key_data, keys)
           idx == kd0.skv_group_index
           name == kd0.skv_groups[idx + 1]
           moved == RemapFrom(kd0, KeyNames(keys), name, INIT_GROUP_NAME, 1)
           groups == RemoveAt(kd0.skv_groups, idx + 1)
           removed == [moved EXCEPT !.skv_groups = groups,
                                    !.skv_group_index =
                                        IF @ >= Len(groups)
                                        THEN IF Len(groups) - 1 > 0 THEN Len(groups) - 1 ELSE 0
                                        ELSE @]
       IN  IF ~IndexValid(idx, kd0.skv_groups)
           THEN Finish("group_remove", "CANCELLED", kd0, scene, keys)
           ELSE IF name = INIT_GROUP_NAME
           THEN Finish("group_remove", "CANCELLED", kd0, scene, keys)
           ELSE Finish("group_remove", "FINISHED",
                       ensure_init_setup_write(removed, keys), scene, keys)

\* SKV_OT_GroupRename.execute
SKV_OT_GroupRename ==
    /\ Idle
    /\ \E new_name \in GroupNameInputs :
         LET keys == objs["Tgt"].keys
             kd0 == ensure_init_setup_write(key_data, keys)
             idx == kd0.skv_group_index
             old == kd0.skv_groups[idx + 1]
             new == Strip(new_name)
             renamed == [kd0 EXCEPT !.skv_groups[idx + 1] = new]
         IN  IF ~IndexValid(idx, kd0.skv_groups)
             THEN Finish("group_rename", "CANCELLED", kd0, scene, keys)
             ELSE IF old = INIT_GROUP_NAME \/ new = ""
                     \/ (new \in Range(group_names(kd0)) /\ new # old)
             THEN Finish("group_rename", "CANCELLED", kd0, scene, keys)
             ELSE Finish("group_rename", "FINISHED",
                         RemapFrom(renamed, KeyNames(keys), old, new, 1), scene, keys)

\* the rollback of SKV_OT_CreateGroupFromSelected: the first group of that
\* name is removed
RemoveGroupNamed(kd, name) ==
    LET hits == {i \in 1..Len(kd.skv_groups) : kd.skv_groups[i] = name}
    IN  IF hits = {} THEN kd
        ELSE [kd EXCEPT !.skv_groups = RemoveAt(@, CHOOSE i \in hits : \A j \in hits : i <= j)]

\* SKV_OT_CreateGroupFromSelected.execute
SKV_OT_CreateGroupFromSelected ==
    /\ Idle
    /\ \E name \in GroupNameInputs :
         LET keys == objs["Tgt"].keys
             kd0 == ensure_init_setup_write(key_data, keys)
             selected == kd_selected_set(kd0)
             new_name == Strip(name)
             added == [kd0 EXCEPT !.skv_groups = Append(@, new_name)]
             m == MoveFrom(added, KeyNames(keys), selected, new_name, 1, 0)
             c == clear_selection_ui(m.kd, scene)
         IN  IF ~is_initialized(key_data)
             THEN Finish("create_group_from_selected", "CANCELLED", key_data, scene, keys)
             ELSE IF selected = {} \/ new_name = "" \/ new_name \in Range(group_names(kd0))
             THEN Finish("create_group_from_selected", "CANCELLED", kd0, scene, keys)
             ELSE IF m.moved = 0
             THEN Finish("create_group_from_selected", "CANCELLED",
                         RemoveGroupNamed(m.kd, new_name), scene, keys)
             ELSE Finish("create_group_from_selected", "FINISHED", c.kd, c.scene, keys)

\* the user picks row i of the list of groups (template_list on skv_group_index)
ClickGroup ==
    /\ Idle
    /\ \E i \in 0..(Len(key_data.skv_groups) - 1) :
         /\ i # key_data.skv_group_index
         /\ key_data' = [key_data EXCEPT !.skv_group_index = i]
    /\ UNCHANGED <<objs, scene, guards, stack, last_op, n_ops>>
    /\ UNCHANGED engine

\* the loop "while name in existing" of the preset operators
RECURSIVE UniqueName(_, _, _)
UniqueName(base, existing, suffix) ==
    LET name == IF suffix = 1 THEN base ELSE WithSuffix(base, suffix)
    IN  IF name \in existing THEN UniqueName(base, existing, suffix + 1) ELSE name

\* the orders in which Python may iterate over a set of names
Orders(names) ==
    {s \in [1..Cardinality(names) -> names] : \A i, j \in 1..Cardinality(names) : i # j => s[i] # s[j]}

\* the loop of SKV_OT_PresetAddFromSelected over the selected names in the
\* order given: one item per existing key other than the reference key
PresetItems(keys, order) ==
    LET valid == SelectSeq(order, LAMBDA kname : ~_is_basis_name(keys, kname) /\ KeyIndex(keys, kname) # 0)
    IN  [i \in 1..Len(valid) |->
            [name |-> valid[i], max_value |-> keys[KeyIndex(keys, valid[i])].value]]

\* one pass of the loop of preset_apply: item i writes its key's value
PresetItemWrite(keys, preset, i) ==
    LET it == preset.items[i]
        k == KeyIndex(keys, it.name)
    IN  IF it.name = "" \/ k = 0 THEN keys
        ELSE [keys EXCEPT ![k].value = FMul(preset.value, it.max_value)]

RECURSIVE PresetWriteFrom(_, _, _)
PresetWriteFrom(keys, preset, i) ==
    IF i > Len(preset.items) THEN keys
    ELSE PresetWriteFrom(PresetItemWrite(keys, preset, i), preset, i + 1)

\* a faulty preset_apply_enter: the guard is not looked at
preset_apply_enter_unguarded(guard, keys, mine) ==
    keys # << >> /\ mine

\* preset_apply up to the try: whether the call goes on to write.  It returns
\* when the guard is set, when there are no key blocks and when the preset's
\* datablock is not the active object's (mine).
preset_apply_enter(guard, keys, mine) ==
    ~guard /\ keys # << >> /\ mine

\* preset_apply run in one piece, as from an operator: the key blocks after it
preset_apply(g, keys, preset) ==
    IF preset_apply_enter(g.preset, keys, TRUE) THEN PresetWriteFrom(keys, preset, 1) ELSE keys

\* SKV_OT_PresetAddFromSelected.execute
SKV_OT_PresetAddFromSelected ==
    /\ Idle
    /\ Len(key_data.skv_presets) < MaxPresets
    /\ \E name_in \in PresetNameInputs :
         LET keys == objs["Tgt"].keys
             selected == kd_selected_set(key_data)
             name == UniqueName(Strip(name_in), Range([i \in 1..Len(key_data.skv_presets) |-> key_data.skv_presets[i].name]), 1)
         IN  IF ~is_initialized(key_data) \/ selected = {} \/ Strip(name_in) = ""
             THEN Finish("preset_add_from_selected", "CANCELLED", key_data, scene, keys)
             ELSE \E order \in Orders(selected) :
                    LET items == PresetItems(keys, order)
                        preset == [name |-> name, value |-> One, items |-> items]
                        kd == [key_data EXCEPT !.skv_presets = Append(@, preset),
                                               !.skv_preset_index = Len(key_data.skv_presets)]
                        c == clear_selection_ui(kd, scene)
                    IN  IF items = << >>
                        THEN Finish("preset_add_from_selected", "CANCELLED", key_data, scene, keys)
                        ELSE Finish("preset_add_from_selected", "FINISHED", c.kd, c.scene,
                                    preset_apply(guards, keys, preset))

\* SKV_OT_PresetAddEmpty.execute
SKV_OT_PresetAddEmpty ==
    /\ Idle
    /\ Len(key_data.skv_presets) < MaxPresets
    /\ \E name_in \in PresetNameInputs :
         LET keys == objs["Tgt"].keys
             name == UniqueName(Strip(name_in), Range([i \in 1..Len(key_data.skv_presets) |-> key_data.skv_presets[i].name]), 1)
             preset == [name |-> name, value |-> 0, items |-> << >>]
         IN  IF ~is_initialized(key_data) \/ Strip(name_in) = ""
             THEN Finish("preset_add_empty", "CANCELLED", key_data, scene, keys)
             ELSE Finish("preset_add_empty", "FINISHED",
                         [key_data EXCEPT !.skv_presets = Append(@, preset),
                                          !.skv_preset_index = Len(key_data.skv_presets)],
                         scene, preset_apply(guards, keys, preset))

\* the removal without the repair of the index
PresetRemoveAtKeepIndex(kd, idx) ==
    [kd EXCEPT !.skv_presets = RemoveAt(@, idx + 1)]

\* the preset at idx is removed and the index is put back in range
PresetRemoveAt(kd, idx) ==
    LET presets == RemoveAt(kd.skv_presets, idx + 1)
    IN  [kd EXCEPT !.skv_presets = presets,
                   !.skv_preset_index =
                       IF @ >= Len(presets)
                       THEN IF Len(presets) - 1 > 0 THEN Len(presets) - 1 ELSE 0
                       ELSE @]

\* SKV_OT_PresetRemove.execute
SKV_OT_PresetRemove ==
    /\ Idle
    /\ LET keys == objs["Tgt"].keys
           idx == key_data.skv_preset_index
       IN  IF ~IndexValid(idx, key_data.skv_presets)
           THEN Finish("preset_remove", "CANCELLED", key_data, scene, keys)
           ELSE Finish("preset_remove", "FINISHED", PresetRemoveAt(key_data, idx), scene, keys)

\* SKV_OT_PresetFocusKey.execute: the key's group becomes the selected one
\* and the key the active row
SKV_OT_PresetFocusKey ==
    /\ Idle
    /\ key_data.skv_presets # << >>
    /\ \E key_name \in {"L_up", "R_up"} :
         LET keys == objs["Tgt"].keys
             grp == kd_get_group(key_data, key_name)
             hits == {i \in 1..Len(key_data.skv_groups) : key_data.skv_groups[i] = grp}
         IN  Finish("preset_focus_key", "FINISHED",
                    IF hits = {} THEN key_data
                    ELSE [key_data EXCEPT !.skv_group_index =
                             (CHOOSE i \in hits : \A j \in hits : i <= j) - 1],
                    [scene EXCEPT !.skv_props.keys_index = KeyIndex(keys, key_name) - 1],
                    keys)

\* the user picks row i of the list of presets (template_list on skv_preset_index)
ClickPreset ==
    /\ Idle
    /\ \E i \in 0..(Len(key_data.skv_presets) - 1) :
         /\ i # key_data.skv_preset_index
         /\ key_data' = [key_data EXCEPT !.skv_preset_index = i]
    /\ UNCHANGED <<objs, scene, guards, stack, last_op, n_ops>>
    /\ UNCHANGED engine

----------------------------------------------------------------------------
(* The panel over one object *)

\* the active object: the reference key and two keys, every value a half
PanelObject ==
    [SelfObject(0, "none", "none") EXCEPT
        !.keys = [k \in 1..3 |->
                     [name |-> << "Basis", "L_up", "R_up" >>[k],
                      co |-> SourceCo("Tri"), mute |-> FALSE,
                      slider_min |-> 0, slider_max |-> One,
                      value |-> IF k = 1 THEN 0 ELSE Half]],
        !.active_shape_key_index = 2]

\* The storage the panel can find: untouched; left by the version whose
\* default group was "Init", with a group of the user's or without; set up.
PanelStorages ==
    LET Map(g) == [k \in 1..3 |-> [name |-> << "Basis", "L_up", "R_up" >>[k], group |-> g]]
    IN  {NewKeyData,
         [NewKeyData EXCEPT !.skv_groups = << "Init" >>, !.skv_key_groups = Map("Init")],
         [NewKeyData EXCEPT !.skv_groups = << "Init", "Arms" >>,
                            !.skv_key_groups = [Map("Init") EXCEPT ![3].group = "Arms"],
                            !.skv_group_index = 1],
         [NewKeyData EXCEPT !.skv_groups = << INIT_GROUP_NAME >>,
                            !.skv_key_groups = Map(INIT_GROUP_NAME)]}

\* what the user typed into the affix field, with the type chosen; a field
\* with text in it and a clicked last row of the key list are looked at on
\* set-up storage
AffixInputs ==
    {<<"PREFIX", "">>, <<"PREFIX", " ; ">>, <<"PREFIX", "L_">>, <<"PREFIX", " L_, ">>,
     <<"PREFIX", "x_">>, <<"SUFFIX", "_up">>}

InitPanel ==
    /\ objs = [n \in {"Src", "Tgt"} |-> IF n = "Src" THEN Armature ELSE PanelObject]
    /\ objs0 = objs
    /\ p = Settings("", "CLOSEST", "LOCAL", "SHAPE",
                    CHOOSE mk \in CoreMasks : mk.vertex_group_filter = "", NoOptions)
    /\ bvh = << >>
    /\ td = NoTransfer
    /\ bm_live = {}
    /\ lv = NoLocals
    /\ pc = "idle"
    /\ ret = ""
    /\ exc = NoExc
    /\ result = ""
    /\ reports = << >>
    /\ calls = 0
    /\ key_data \in PanelStorages
    /\ \E affix \in AffixInputs, keys_index \in {-1, Len(PanelObject.keys) - 1} :
          /\ (affix[2] # "" \/ keys_index # -1) => is_initialized(key_data)
          /\ affix[2] # "" => keys_index = -1
          /\ scene = [NewScene EXCEPT !.skv_props.affix_type = affix[1],
                                      !.skv_props.affix_value = affix[2],
                                      !.skv_props.keys_index = keys_index]
    /\ guards = NoGuards
    /\ stack = << >>
    /\ last_op = NoOp
    /\ n_ops = 0

NextPanel ==
    \/ SKV_OT_InitRescan
    \/ SKV_OT_ShapeKeyDelete
    \/ SKV_OT_KeyToggleSelect
    \/ SKV_OT_SelectVisible
    \/ SKV_OT_SelectByAffix
    \/ SKV_OT_MoveSelectedToGroup
    \/ SKV_OT_ResetGroupValues
    \/ SKV_OT_GroupAdd
    \/ SKV_OT_GroupRemove
    \/ SKV_OT_GroupRename
    \/ SKV_OT_CreateGroupFromSelected
    \/ ClickGroup
    \/ SKV_OT_PresetAddFromSelected
    \/ SKV_OT_PresetAddEmpty
    \/ SKV_OT_PresetRemove
    \/ SKV_OT_PresetFocusKey
    \/ ClickPreset

SpecPanel == InitPanel /\ [][NextPanel]_vars

----------------------------------------------------------------------------
(* The preset sliders.  Setting a preset's value runs its update callback,  *)
(* preset_apply or global_preset_apply, which writes the key values item by *)
(* item; a callback that fires meanwhile sets a value and calls again.      *)
(* stack holds the calls that got past their guard, the running one last.   *)

\* the values a slider is set to
SliderValues == {0, Half, One}

\* the calls of fn in progress
Frames(fn) == {i \in 1..Len(stack) : stack[i].fn = fn}

\* global_preset_apply up to the try: whether the call goes on to write
global_preset_apply_enter(guard) == ~guard

\* the finally of preset_apply and of global_preset_apply
preset_apply_finally(g) == [g EXCEPT !.preset = FALSE]

global_preset_apply_finally(g) == [g EXCEPT !.global = FALSE]

\* one pass of the loop of global_preset_apply: item i writes its key's value
\* when its object is a mesh with that key
GlobalItemWrite(os, preset, i) ==
    LET it == preset.items[i]
        obj_name == Strip(it.object_name)
        key_name == Strip(it.key_name)
    IN  IF obj_name = "" \/ key_name = "" THEN os
        ELSE IF obj_name \notin DOMAIN os \/ os[obj_name].type # "MESH" THEN os
        ELSE IF KeyIndex(os[obj_name].keys, key_name) = 0 THEN os
        ELSE [os EXCEPT ![obj_name].keys[KeyIndex(os[obj_name].keys, key_name)].value =
                 FMul(preset.value, it.max_value)]

\* preset_value_update: the value of preset j is set, by the user or by a
\* callback, and preset_apply is called; mine: the preset's datablock is the
\* active object's
preset_value_update ==
    /\ n_ops < MaxOps
    /\ \E j \in 1..Len(key_data.skv_presets), v \in SliderValues, mine \in BOOLEAN :
         /\ key_data' = [key_data EXCEPT !.skv_presets[j].value = v]
         /\ IF preset_apply_enter(guards.preset, objs["Tgt"].keys, mine)
            THEN /\ Len(stack) < MaxDepth
                 /\ guards' = [guards EXCEPT !.preset = TRUE]
                 /\ stack' = Append(stack, [fn |-> "preset_apply", preset |-> j, i |-> 1])
                 /\ last_op' = [name |-> "preset_apply", result |-> "entered"]
            ELSE /\ UNCHANGED <<guards, stack>>
                 /\ last_op' = [name |-> "preset_apply",
                                result |-> IF guards.preset THEN "guarded" ELSE "skipped"]
    /\ n_ops' = n_ops + 1
    /\ UNCHANGED <<objs, scene>>
    /\ UNCHANGED engine

\* the running preset_apply writes the value of its next item
PresetApplyWrite ==
    /\ stack # << >>
    /\ LET f == stack[Len(stack)]
           preset == key_data.skv_presets[f.preset]
       IN  /\ f.fn = "preset_apply"
           /\ f.i <= Len(preset.items)
           /\ objs' = [objs EXCEPT !["Tgt"].keys = PresetItemWrite(@, preset, f.i)]
           /\ stack' = [stack EXCEPT ![Len(stack)].i = f.i + 1]
    /\ UNCHANGED <<key_data, scene, guards, last_op, n_ops>>
    /\ UNCHANGED engine

\* the running preset_apply leaves its loop and returns
PresetApplyReturn ==
    /\ stack # << >>
    /\ LET f == stack[Len(stack)]
       IN  /\ f.fn = "preset_apply"
           /\ f.i > Len(key_data.skv_presets[f.preset].items)
    /\ guards' = preset_apply_finally(guards)
    /\ stack' = SubSeq(stack, 1, Len(stack) - 1)
    /\ last_op' = [name |-> "preset_apply", result |-> "returned"]
    /\ UNCHANGED <<objs, key_data, scene, n_ops>>
    /\ UNCHANGED engine

\* the running preset_apply raises inside its try
PresetApplyRaise ==
    /\ stack # << >>
    /\ stack[Len(stack)].fn = "preset_apply"
    /\ guards' = preset_apply_finally(guards)
    /\ stack' = SubSeq(stack, 1, Len(stack) - 1)
    /\ last_op' = [name |-> "preset_apply", result |-> "raised"]
    /\ UNCHANGED <<objs, key_data, scene, n_ops>>
    /\ UNCHANGED engine

\* global_preset_value_update: the value of global preset j is set and
\* global_preset_apply is called
global_preset_value_update ==
    /\ n_ops < MaxOps
    /\ \E j \in 1..Len(scene.skv_global_presets), v \in SliderValues :
         /\ scene' = [scene EXCEPT !.skv_global_presets[j].value = v]
         /\ IF global_preset_apply_enter(guards.global)
            THEN /\ Len(stack) < MaxDepth
                 /\ guards' = [guards EXCEPT !.global = TRUE]
                 /\ stack' = Append(stack, [fn |-> "global_preset_apply", preset |-> j, i |-> 1])
                 /\ last_op' = [name |-> "global_preset_apply", result |-> "entered"]
            ELSE /\ UNCHANGED <<guards, stack>>
                 /\ last_op' = [name |-> "global_preset_apply", result |-> "guarded"]
    /\ n_ops' = n_ops + 1
    /\ UNCHANGED <<objs, key_data>>
    /\ UNCHANGED engine

\* the running global_preset_apply writes the value of its next item
GlobalPresetApplyWrite ==
    /\ stack # << >>
    /\ LET f == stack[Len(stack)]
           preset == scene.skv_global_presets[f.preset]
       IN  /\ f.fn = "global_preset_apply"
           /\ f.i <= Len(preset.items)
           /\ objs' = GlobalItemWrite(objs, preset, f.i)
           /\ stack' = [stack EXCEPT ![Len(stack)].i = f.i + 1]
    /\ UNCHANGED <<key_data, scene, guards, last_op, n_ops>>
    /\ UNCHANGED engine

\* the running global_preset_apply leaves its loop and returns
GlobalPresetApplyReturn ==
    /\ stack # << >>
    /\ LET f == stack[Len(stack)]
       IN  /\ f.fn = "global_preset_apply"
           /\ f.i > Len(scene.skv_global_presets[f.preset].items)
    /\ guards' = global_preset_apply_finally(guards)
    /\ stack' = SubSeq(stack, 1, Len(stack) - 1)
    /\ last_op' = [name |-> "global_preset_apply", result |-> "returned"]
    /\ UNCHANGED <<objs, key_data, scene, n_ops>>
    /\ UNCHANGED engine

\* the running global_preset_apply raises inside its try
GlobalPresetApplyRaise ==
    /\ stack # << >>
    /\ stack[Len(stack)].fn = "global_preset_apply"
    /\ guards' = global_preset_apply_finally(guards)
    /\ stack' = SubSeq(stack, 1, Len(stack) - 1)
    /\ last_op' = [name |-> "global_preset_apply", result |-> "raised"]
    /\ UNCHANGED <<objs, key_data, scene, n_ops>>
    /\ UNCHANGED engine

\* Set-up storage with two presets, and a global preset over the active
\* object and an object without shape keys.
InitApply ==
    /\ objs = [n \in {"Src", "Tgt"} |-> IF n = "Src" THEN Armature ELSE PanelObject]
    /\ objs0 = objs
    /\ p = Settings("", "CLOSEST", "LOCAL", "SHAPE",
                    CHOOSE mk \in CoreMasks : mk.vertex_group_filter = "", NoOptions)
    /\ bvh = << >>
    /\ td = NoTransfer
    /\ bm_live = {}
    /\ lv = NoLocals
    /\ pc = "idle"
    /\ ret = ""
    /\ exc = NoExc
    /\ result = ""
    /\ reports = << >>
    /\ calls = 0
    /\ key_data =
          [NewKeyData EXCEPT
             !.skv_groups = << INIT_GROUP_NAME >>,
             !.skv_key_groups = [k \in 1..3 |-> [name |-> PanelObject.keys[k].name,
                                                  group |-> INIT_GROUP_NAME]],
             !.skv_presets =
                << [name |-> "P", value |-> 0,
                    items |-> << [name |-> "L_up", max_value |-> One],
                                 [name |-> "R_up", max_value |-> Half] >>],
                   [name |-> "P 2", value |-> 0,
                    items |-> << [name |-> "x_", max_value |-> One],
                                 [name |-> "R_up", max_value |-> One] >>] >>]
    /\ scene = [NewScene EXCEPT !.skv_global_presets =
                   << [name |-> "P", value |-> 0,
                       items |-> << [object_name |-> "Src", key_name |-> "L_up", max_value |-> One],
                                    [object_name |-> "Tgt", key_name |-> "L_up", max_value |-> Half] >>] >>]
    /\ guards = NoGuards
    /\ stack = << >>
    /\ last_op = NoOp
    /\ n_ops = 0

NextApply ==
    \/ preset_value_update
    \/ PresetApplyWrite
    \/ PresetApplyReturn
    \/ PresetApplyRaise
    \/ global_preset_value_update
    \/ GlobalPresetApplyWrite
    \/ GlobalPresetApplyReturn
    \/ GlobalPresetApplyRaise

SpecApply == InitApply /\ [][NextApply]_vars

----------------------------------------------------------------------------
(* Properties *)

\* the named transfer has run through its writes
Ran(op) == pc \in {"returned", "done"} /\ lv.op = op

\* the positions an object's shape key holds
KeyCo(o, name) == o.keys[IndexOf(o.keys, name)].co

\* the mask as one factor per vertex: no mask is 1.0 everywhere
MaskFactor(masked_vertices, i) ==
    IF masked_vertices = <<>> THEN One ELSE masked_vertices[i]

\* C1: transfer_shape_keys run with a mask that is 0 at every target vertex
\* leaves a target shape key that has the name of a transferred source shape
\* key with the positions it held before the call.
C1_ZeroMaskKeepsExistingKey ==
    ( /\ Ran("transfer_shape_keys")
      /\ lv.masked_vertices # <<>>
      /\ \A i \in 1..Len(lv.masked_vertices) : lv.masked_vertices[i] = 0 )
    => \A k \in 1..Len(lv.passes) :
          IndexOf(objs0["Tgt"].keys, lv.passes[k].name) # 0
          => KeyCo(objs["Tgt"], lv.passes[k].name) = KeyCo(objs0["Tgt"], lv.passes[k].name)

\* C2: with a mask of 1 everywhere or no mask, no target shape key of the
\* transferred name, no missed and no zero-area projection (and no snapping),
\* transfer_shape_keys writes at every vertex the target's reference position
\* plus D, D the interpolated source shape minus the interpolated source rest
\* position, wherever the target sits relative to the source.
C2_WritesReferencePlusDelta ==
    ( /\ Ran("transfer_shape_keys")
      /\ td.search_method # "TOPOLOGY"
      /\ ~td.snap_to_closest_shapekey
      /\ ~td.has_zero_area_faces
      /\ \A i \in 1..Len(td.missed_projections) : ~td.missed_projections[i]
      /\ \A i \in 1..Len(lv.undeformed_verts) : MaskFactor(lv.masked_vertices, i) = One )
    => \A k \in 1..Len(lv.passes) :
          IndexOf(objs0["Tgt"].keys, lv.passes[k].name) = 0
          => \A i \in 1..Len(lv.undeformed_verts) :
                KeyCo(objs["Tgt"], lv.passes[k].name)[i]
                    = VAdd(lv.undeformed_verts[i],
                           VSub(lv.passes[k].finite[i], lv.base_transferred_position[i]))

\* C3: when the target holds a shape key of the transferred name,
\* transfer_shape_keys writes at every vertex
\* reference + mask * transferred_delta + (1 - mask) * existing_delta,
\* existing_delta the key's position before the call minus the reference.
C3_BlendsWithExistingDelta ==
    Ran("transfer_shape_keys")
    => \A k \in 1..Len(lv.passes) :
          IndexOf(objs0["Tgt"].keys, lv.passes[k].name) # 0
          => \A i \in 1..Len(lv.undeformed_verts) :
                KeyCo(objs["Tgt"], lv.passes[k].name)[i]
                    = VAdd(lv.undeformed_verts[i],
                           VAdd(VScale(VSub(lv.passes[k].finite[i],
                                            lv.base_transferred_position[i]),
                                       MaskFactor(lv.masked_vertices, i)),
                                VScale(VSub(KeyCo(objs0["Tgt"], lv.passes[k].name)[i],
                                            lv.undeformed_verts[i]),
                                       One - MaskFactor(lv.masked_vertices, i))))

\* C4: with search method TOPOLOGY and vertex counts that differ, each of
\* transfer_vertex_position, transfer_vertex_groups and transfer_shape_keys
\* ends with the topology-mismatch error, never with a return value, and
\* leaves the target as it was.
C4_TopologyMismatchRaises ==
    ( /\ pc \in {"returned", "raised"}
      /\ p.search_method = "TOPOLOGY"
      /\ p.attributes_to_transfer \in {"SHAPE", "VERTEX_GROUPS", "SHAPE_KEYS"}
      /\ v_count(objs0["Src"]) # v_count(objs0["Tgt"]) )
    => /\ pc = "raised"
       /\ ret = ""
       /\ exc = RuntimeError("Topology transfer requires identical vertex counts")
       /\ objs = objs0

\* C5: every execute that constructed a MeshDataTransfer ends, on every exit
\* path, with free() called: both MeshData hold no bmesh and no tree, and no
\* working copy stays allocated.
C5_FreedOnEveryExit ==
    (pc = "done" /\ td.exists)
    => /\ td.source.transfer_bmesh = 0 /\ td.source.bvhtree = "None"
       /\ td.target.transfer_bmesh = 0 /\ td.target.bvhtree = "None"
       /\ bm_live = {}

\* execute was cancelled by the target's missing UV map, raised after the
\* source's working copy and tree were built
C5_Witness ==
    /\ pc = "done" /\ td.exists /\ result = "CANCELLED"
    /\ p.search_method = "UVS"
    /\ objs["Src"].uv_active /\ ~objs["Tgt"].uv_active

\* C6: a transfer that names a mask vertex group the target does not have is
\* reported as an error and writes no position, vertex group or shape key of
\* the target.
C6_MissingMaskGroupIsAnError ==
    ( /\ pc = "done" /\ td.exists
      /\ p.attributes_to_transfer \in {"SHAPE", "SHAPE_KEYS", "VERTEX_GROUPS"}
      /\ p.vertex_group_filter # ""
      /\ IndexOf(objs0["Tgt"].vertex_groups, p.vertex_group_filter) = 0 )
    => /\ result = "CANCELLED"
       /\ reports # <<>>
       /\ objs["Tgt"] = objs0["Tgt"]

\* C7: when the source is missing or is not a mesh, execute reports an error
\* and returns CANCELLED with no MeshDataTransfer constructed and nothing of
\* the target written.
C7_InvalidSourceCancels ==
    ( /\ pc # "idle"
      /\ p.mesh_source = "" \/ objs0[p.mesh_source].type # "MESH" )
    => /\ pc = "done"
       /\ result = "CANCELLED"
       /\ reports = << <<"ERROR", "Invalid source object (must be Mesh).">> >>
       /\ td = NoTransfer
       /\ bm_live = {}
       /\ objs = objs0

\* execute has run with an armature as the source
C7_Witness ==
    /\ pc = "done"
    /\ p.mesh_source = "Src" /\ objs0["Src"].type = "ARMATURE"
    /\ result = "CANCELLED"

\* target vertex i missed the source or hit a triangle of no area
Degenerate(i) ==
    /\ td.missed_projections # <<>>
    /\ td.missed_projections[i] \/ ZeroArea(td.hit_faces[i])

\* C8: where target vertices hit a zero-area triangle or miss the source, no
\* value written by transfer_vertex_position, transfer_shape_keys or
\* transfer_vertex_groups is NaN, and at every such vertex the position
\* written is the target's own original position.  Stated for transfers
\* without mask, snapping or a target shape key of the transferred name.
C8_DegenerateKeepsOriginal ==
    /\ ( /\ Ran("transfer_vertex_position")
         /\ ~p.snap_to_closest /\ lv.masked_vertices = <<>> )
       => \A i \in 1..Len(lv.written) :
             /\ ~VHasNaN(lv.written[i])
             /\ Degenerate(i) => lv.written[i] = objs0["Tgt"].co[i]
    /\ ( /\ Ran("transfer_shape_keys")
         /\ ~p.snap_to_closest_shapekey /\ lv.masked_vertices = <<>>
         /\ lv.target_shape_keys = <<>> )
       => \A k \in 1..Len(lv.passes) : \A i \in 1..Len(lv.undeformed_verts) :
             /\ ~VHasNaN(KeyCo(objs["Tgt"], lv.passes[k].name)[i])
             /\ Degenerate(i)
                => KeyCo(objs["Tgt"], lv.passes[k].name)[i] = objs0["Tgt"].co[i]
    /\ Ran("transfer_vertex_groups")
       => \A g \in 1..Len(objs["Tgt"].vertex_groups) :
             \A i \in objs["Tgt"].vertex_groups[g].members :
                ~IsNaN(objs["Tgt"].vertex_groups[g].w[i])

\* C9: cast_verts leaves a target vertex's missed flag true exactly when the
\* query for it returned no hit, and then records the vertex's own position
\* as the hit point; at every such vertex transfer_vertex_position and
\* transfer_shape_keys produce, before masking, the target's position from
\* before the transfer.
C9_MissedFallsBackToOwnPosition ==
    (pc = "returned" /\ td.projection_ready)
    => \A k \in 1..Len(td.target.verts) : \A j \in 1..Len(td.target.vertex_map[k]) :
          LET i == td.target.vertex_map[k][j]
          IN  /\ td.missed_projections[i] <=> ~Projection(td, bvh, k).hit
              /\ td.missed_projections[i]
                 => /\ td.ray_casted[i] = td.target.verts[k]
                    /\ lv.op = "transfer_vertex_position"
                       => lv.unmissed[i] = objs0["Tgt"].co[i]
                    /\ lv.op = "transfer_shape_keys"
                       => \A n \in 1..Len(lv.passes) :
                             lv.passes[n].finite[i] = objs0["Tgt"].co[i]

\* a ray cast has missed for some target vertices and hit for another, above
\* the surface, and the positions were transferred
C9_Witness ==
    /\ pc = "returned" /\ td.projection_ready
    /\ lv.op = "transfer_vertex_position"
    /\ p.search_method = "RAYCAST"
    /\ td.missed_projections = <<TRUE, FALSE, TRUE>>
    /\ objs0["Tgt"].co[1][3] > 0

\* the factor C10 gives target vertex i: the selected flag under
\* restrict_to_selection, times the weight in the named group, or one minus it
ExpectedMask(i) ==
    LET tgt == objs0["Tgt"]
        gi  == IndexOf(tgt.vertex_groups, p.vertex_group_filter)
        weight == IF i \in tgt.vertex_groups[gi].members
                  THEN tgt.vertex_groups[gi].w[i] ELSE 0
        selection_factor == IF p.restrict_to_edit_selection
                            THEN (IF tgt.select[i] THEN One ELSE 0) ELSE One
        group_factor == IF p.vertex_group_filter = "" THEN One
                        ELSE IF p.invert_vertex_group_filter THEN One - weight
                        ELSE weight
    IN  FMul(selection_factor, group_factor)

\* C10: get_vertices_mask yields per target vertex the product of the
\* selection factor and the vertex group factor, each 1 when its option is
\* not set; with neither set there is no mask, and transfer_vertex_position
\* writes what a mask of 1 everywhere gives.  The named group is on the target.
C10_MaskIsProductOfFactors ==
    ( /\ pc = "returned"
      /\ lv.op \in {"transfer_vertex_position", "transfer_shape_keys",
                    "transfer_vertex_groups"}
      /\ p.vertex_group_filter # ""
         => IndexOf(objs0["Tgt"].vertex_groups, p.vertex_group_filter) # 0 )
    => /\ IF p.vertex_group_filter = "" /\ ~p.restrict_to_edit_selection
          THEN lv.masked_vertices = <<>>
          ELSE /\ Len(lv.masked_vertices) = v_count(objs0["Tgt"])
               /\ \A i \in 1..Len(lv.masked_vertices) :
                     lv.masked_vertices[i] = ExpectedMask(i)
       /\ lv.op = "transfer_vertex_position"
          => lv.masked = ABlend(lv.unmissed, lv.undeformed_verts,
                                [i \in 1..Len(lv.unmissed) |-> ExpectedMask(i)])

\* positions were transferred under an inverted vertex group restricted to
\* the selection, with a partial weight
C10_Witness ==
    /\ pc = "returned" /\ lv.op = "transfer_vertex_position"
    /\ p.vertex_group_filter = "Mask" /\ p.invert_vertex_group_filter
    /\ p.restrict_to_edit_selection
    /\ lv.masked_vertices = <<Half, 0, One>>

\* the names of the shapes of o other than its reference shape (the first),
\* less the muted ones when they are excluded
EligibleShapes(o, exclude_muted) ==
    {o.keys[k].name : k \in {j \in 2..Len(o.keys) : ~(exclude_muted /\ o.keys[j].mute)}}

\* the names of the weight maps of o, less the locked ones when they are
\* excluded
EligibleGroups(o, exclude_locked) ==
    {o.vertex_groups[k].name :
        k \in {j \in 1..Len(o.vertex_groups) :
                  ~(exclude_locked /\ o.vertex_groups[j].lock_weight)}}

\* C11: transfer_shape_keys on a source with no eligible blend shape, and
\* transfer_vertex_groups on a source with no eligible weight map, return
\* False, raise nothing and write nothing.
C11_NothingEligibleReturnsFalse ==
    ( /\ pc \in {"returned", "raised"}
      /\ \/ /\ p.attributes_to_transfer = "SHAPE_KEYS"
            /\ EligibleShapes(objs0[p.mesh_source], p.exclude_muted_shapekeys) = {}
         \/ /\ p.attributes_to_transfer = "VERTEX_GROUPS"
            /\ EligibleGroups(objs0[p.mesh_source], p.exclude_locked_groups) = {} )
    => /\ pc = "returned"
       /\ ret = "False"
       /\ exc = NoExc
       /\ objs = objs0

\* C12: after transfer_shape_keys every shape key the target had keeps its
\* slider value, a shape key the call created has the value 0, and every
\* transferred target shape has the slider_min and slider_max of the source
\* shape of its name.
C12_ValuesKeptSliderRangeCopied ==
    Ran("transfer_shape_keys")
    => /\ \A k \in 1..Len(objs["Tgt"].keys) :
             LET k0 == IndexOf(objs0["Tgt"].keys, objs["Tgt"].keys[k].name)
             IN  objs["Tgt"].keys[k].value
                    = IF k0 = 0 THEN 0 ELSE objs0["Tgt"].keys[k0].value
       /\ \A k \in 1..Len(lv.passes) :
             LET tk == objs["Tgt"].keys[IndexOf(objs["Tgt"].keys, lv.passes[k].name)]
                 sk == objs0[p.mesh_source].keys[IndexOf(objs0[p.mesh_source].keys,
                                                         lv.passes[k].name)]
             IN  tk.slider_min = sk.slider_min /\ tk.slider_max = sk.slider_max

\* "Smile" was transferred onto a target that held it at value 0.5 with a
\* slider range that differs from the source's; "Basis" was transferred onto
\* no key
C12_Witness ==
    /\ Ran("transfer_shape_keys")
    /\ IndexOf(objs0["Tgt"].keys, "Smile") # 0
    /\ objs0["Tgt"].keys[IndexOf(objs0["Tgt"].keys, "Smile")].value = Half
    /\ objs0["Tgt"].keys[IndexOf(objs0["Tgt"].keys, "Smile")].slider_min = 0
    /\ objs["Tgt"].keys[IndexOf(objs["Tgt"].keys, "Smile")].value = Half
    /\ objs["Tgt"].keys[IndexOf(objs["Tgt"].keys, "Smile")].slider_min = 0 - One
    /\ objs["Tgt"].keys[IndexOf(objs["Tgt"].keys, "Smile")].slider_max = 2 * One

\* C13: transfer_shape_keys never transfers the source's reference shape, its
\* first shape key, whatever that shape is named, and never overwrites the
\* target's reference shape.
C13_ReferenceShapeUntouched ==
    Ran("transfer_shape_keys")
    => /\ \A k \in 1..Len(lv.passes) :
             lv.passes[k].name # objs0[p.mesh_source].keys[1].name
       /\ objs0["Tgt"].keys # <<>> => objs["Tgt"].keys[1] = objs0["Tgt"].keys[1]

\* C14: the target shapes transfer_shape_keys writes are those of the names
\* of the source's shapes other than its reference shape, less the muted ones
\* when they are excluded, and every other target shape is as it was.
C14_WritesExactlyTheEligibleShapes ==
    Ran("transfer_shape_keys")
    => /\ {lv.passes[k].name : k \in 1..Len(lv.passes)}
             = EligibleShapes(objs0[p.mesh_source], p.exclude_muted_shapekeys)
       /\ \A k \in 1..Len(objs0["Tgt"].keys) :
             objs0["Tgt"].keys[k].name
                 \notin EligibleShapes(objs0[p.mesh_source], p.exclude_muted_shapekeys)
             => objs["Tgt"].keys[k] = objs0["Tgt"].keys[k]

WeightOf(o, name, i) ==
    LET gi == IndexOf(o.vertex_groups, name)
    IN  IF gi # 0 /\ i \in o.vertex_groups[gi].members
        THEN o.vertex_groups[gi].w[i] ELSE 0

\* C16: transfer_vertex_groups processes the source's weight maps, less the
\* locked ones when exclude_locked_groups is set, and no other; for each the
\* target ends up holding a map of that name; no map of another name is
\* created or modified.
C16_ProcessesExactlyTheEligibleGroups ==
    Ran("transfer_vertex_groups")
    => /\ {lv.sent[k].name : k \in 1..Len(lv.sent)}
             = EligibleGroups(objs0[p.mesh_source], p.exclude_locked_groups)
       /\ \A k \in 1..Len(lv.sent) :
             IndexOf(objs["Tgt"].vertex_groups, lv.sent[k].name) # 0
       /\ \A g \in 1..Len(objs["Tgt"].vertex_groups) :
             objs["Tgt"].vertex_groups[g].name
                 \notin EligibleGroups(objs0[p.mesh_source], p.exclude_locked_groups)
             => /\ g <= Len(objs0["Tgt"].vertex_groups)
                /\ objs["Tgt"].vertex_groups[g] = objs0["Tgt"].vertex_groups[g]

\* of a source with "Arm" and a locked "Leg" only "Arm" was transferred, and
\* created on the target, which holds no "Leg"
C16_Witness ==
    /\ Ran("transfer_vertex_groups")
    /\ p.exclude_locked_groups
    /\ IndexOf(objs0[p.mesh_source].vertex_groups, "Leg") # 0
    /\ Len(lv.sent) = 1 /\ lv.sent[1].name = "Arm"
    /\ IndexOf(objs0["Tgt"].vertex_groups, "Arm") = 0
    /\ IndexOf(objs["Tgt"].vertex_groups, "Arm") # 0
    /\ IndexOf(objs["Tgt"].vertex_groups, "Leg") = 0

\* C17: at every target vertex where the mask is 0, the weight the target has
\* in each transferred map after transfer_vertex_groups is its weight before
\* the call, in every search method.
C17_ZeroMaskKeepsWeight ==
    (Ran("transfer_vertex_groups") /\ lv.masked_vertices # <<>>)
    => \A k \in 1..Len(lv.sent) : \A i \in 1..Len(lv.masked_vertices) :
          lv.masked_vertices[i] = 0
          => WeightOf(objs["Tgt"], lv.sent[k].name, i)
                = WeightOf(objs0["Tgt"], lv.sent[k].name, i)

\* C18: for every target vertex that did not miss and whose hit triangle
\* (A, B, C) has an area, the (u, v, w) of get_barycentric_coords satisfy
\* u + v + w = 1 and u*A + v*B + w*C is the recorded hit point.
C18_BarycentricReproducesHitPoint ==
    (td.exists /\ td.projection_ready)
    => \A i \in 1..Len(td.barycentric_coords) :
          (~td.missed_projections[i] /\ ~ZeroArea(td.hit_faces[i]))
          => /\ FAdd(FAdd(td.barycentric_coords[i][1], td.barycentric_coords[i][2]),
                     td.barycentric_coords[i][3]) = One
             /\ BaryLocation(td.hit_faces[i], td.barycentric_coords[i]) = td.ray_casted[i]

\* a vertex above the source was projected into the inside of an edge of a
\* triangle that has an area, another onto a corner
C18_Witness ==
    /\ td.exists /\ td.projection_ready
    /\ ~td.missed_projections[1] /\ ~ZeroArea(td.hit_faces[1])
    /\ td.barycentric_coords[1] = <<Half, Half, 0>>
    /\ td.ray_casted[1] # objs0["Tgt"].co[1]
    /\ ~td.missed_projections[3]
    /\ td.barycentric_coords[3] = <<0, 0, One>>

\* C19: transfer_vertex_position with the same mesh as source and target and
\* no mask writes at every vertex the position the mesh had before, so that
\* applying it twice leaves what applying it once leaves.
C19_SelfTransferIsIdentity ==
    ( /\ Ran("transfer_vertex_position")
      /\ p.mesh_source = "Tgt"
      /\ lv.masked_vertices = <<>> )
    => /\ lv.written = objs0["Tgt"].co
       /\ objs["Tgt"].co = objs0["Tgt"].co

\* transfer_vertex_position has returned from its second call on a mesh
\* sampled on itself in world space, with a vertex that was projected
C19_Witness ==
    /\ pc = "returned" /\ calls = 2
    /\ p.attributes_to_transfer = "SHAPE" /\ lv.op = "transfer_vertex_position"
    /\ p.mesh_source = "Tgt"
    /\ td.world_space /\ td.projection_ready
    /\ ~td.missed_projections[1]
    /\ lv.written = objs0["Tgt"].co
    /\ objs0["Tgt"].co[1][3] > 0

\* the arrays of the projection cache
CacheArrays(t) ==
    <<t.ray_casted, t.hit_faces, t.related_ids, t.missed_projections, t.barycentric_coords>>

\* C20: within one MeshDataTransfer, over any sequence of calls of
\* transfer_vertex_position, transfer_vertex_groups and transfer_shape_keys,
\* cast_verts runs at most once and each MeshData builds its transfer mesh
\* and tree at most once; once the projection cache is filled, no later call
\* changes ray_casted, hit_faces, related_ids, missed_projections or
\* barycentric_coords.
C20_ProjectionBuiltOnce ==
    /\ [](td.exists => /\ td.n_casts <= 1
                       /\ td.source.n_builds <= 1
                       /\ td.target.n_builds <= 1)
    /\ [][(td.exists /\ td.projection_ready) => CacheArrays(td') = CacheArrays(td)]_vars

\* an operator of the panel ran last, with this result
Op(name, res) == last_op.name = name /\ last_op.result = res

\* C21: on initialized key data, after any sequence of the group operators
\* (rescan, group add, remove and rename, move selected to group, create group
\* from selected, shape key delete) every existing shape key resolves through
\* kd_get_group to one group name, and that name is in skv_groups.
C21_EveryKeyInOneExistingGroup ==
    is_initialized(key_data)
    => \A k \in 1..Len(objs["Tgt"].keys) :
          /\ kd_get_group(key_data, objs["Tgt"].keys[k].name) \in Range(key_data.skv_groups)
          /\ Cardinality({i \in 1..Len(key_data.skv_key_groups) :
                             key_data.skv_key_groups[i].name = objs["Tgt"].keys[k].name}) <= 1

\* a key was moved to a group of the user's, another key was deleted and the
\* group was removed: the moved key is back in "Main"
C21_Witness ==
    /\ Op("group_remove", "FINISHED")
    /\ Len(objs["Tgt"].keys) = 2
    /\ key_data.skv_groups = << INIT_GROUP_NAME >>
    /\ \E i \in 1..Len(key_data.skv_key_groups) :
          key_data.skv_key_groups[i] = [name |-> objs["Tgt"].keys[2].name, group |-> INIT_GROUP_NAME]

\* the corners and the source vertex indices of the source's transfer face f
FaceCorners(t, f) ==
    << t.source.verts[t.source.faces[f][1]], t.source.verts[t.source.faces[f][2]],
       t.source.verts[t.source.faces[f][3]] >>

FaceIds(t, f) ==
    << t.source.vertex_map[t.source.faces[f][1]][1], t.source.vertex_map[t.source.faces[f][2]][1],
       t.source.vertex_map[t.source.faces[f][3]][1] >>

\* the point is a combination u*A + v*B + w*C of the triangle's corners with
\* u, v, w >= 0 and u + v + w = 1
OnTriangle(pt, tri) ==
    \E u, v \in 0..One :
        /\ u + v <= One
        /\ \A j \in 1..3 :
              u * tri[1][j] + v * tri[2][j] + (One - u - v) * tri[3][j] = One * pt[j]

\* C22: after cast_verts, for every target vertex that is not flagged missed,
\* the recorded hit point, triangle corners and source vertex indices are
\* those of one projection hit of a transfer vertex of that vertex, and the
\* hit point lies on the recorded triangle; in every search mode, UV space
\* with a vertex reached through several UV vertices included.
C22_HitRecordsFromOneProjection ==
    (pc = "returned" /\ td.projection_ready)
    => \A i \in 1..Len(td.missed_projections) :
          ~td.missed_projections[i]
          => /\ OnTriangle(td.ray_casted[i], td.hit_faces[i])
             /\ \E k \in 1..Len(bvh) :
                   /\ \E j \in 1..Len(td.target.vertex_map[k]) : td.target.vertex_map[k][j] = i
                   /\ Projection(td, bvh, k).hit
                   /\ td.ray_casted[i] = Projection(td, bvh, k).loc
                   /\ td.hit_faces[i] = FaceCorners(td, Projection(td, bvh, k).face)
                   /\ td.related_ids[i] = FaceIds(td, Projection(td, bvh, k).face)

\* UV space: vertex 1 is reached through two UV vertices that hit different
\* triangles of the source, and its records are those of the second hit
C22_Witness ==
    /\ pc = "returned" /\ td.projection_ready /\ td.uv_space
    /\ Len(td.target.vertex_map) = 6
    /\ td.target.vertex_map[1] = <<1>> /\ td.target.vertex_map[4] = <<1>>
    /\ Projection(td, bvh, 1).face = 1 /\ Projection(td, bvh, 4).face = 2
    /\ ~td.missed_projections[1]
    /\ td.ray_casted[1] = <<2 * One, 0, 0>>
    /\ td.related_ids[1] = <<1, 2, 4>>

\* a call of fn that found another call of fn in progress
NestedCall(fn) ==
    /\ Frames(fn) # {}
    /\ n_ops' = n_ops + 1
    /\ last_op'.name = fn

\* C23: while a preset_apply is writing values, a nested preset_apply returns
\* without writing, so at most one is ever past the guard; once no
\* preset_apply is in progress, having returned or raised, _PRESET_APPLY_GUARD
\* is False.  The same for global_preset_apply and _GLOBAL_PRESET_APPLY_GUARD.
C23_NestedApplyReturnsGuardReset ==
    /\ [](/\ Cardinality(Frames("preset_apply")) <= 1
          /\ Cardinality(Frames("global_preset_apply")) <= 1
          /\ Frames("preset_apply") = {} => ~guards.preset
          /\ Frames("global_preset_apply") = {} => ~guards.global)
    /\ [][(NestedCall("preset_apply") \/ NestedCall("global_preset_apply"))
            => (objs' = objs /\ stack' = stack /\ guards' = guards)]_vars

\* a preset_apply has written its first item and a nested call has just
\* returned at the guard
C23_Witness ==
    /\ Frames("preset_apply") # {}
    /\ stack[Len(stack)] = [fn |-> "preset_apply", preset |-> 1, i |-> 2]
    /\ last_op = [name |-> "preset_apply", result |-> "guarded"]
    /\ guards.preset
    /\ objs["Tgt"].keys[2].value = One

\* C24: after SKV_OT_ShapeKeyDelete.execute returns FINISHED,
\* scene.skv_props.keys_index is a valid index into the remaining key blocks,
\* 0 <= keys_index < their count, whatever it was before the deletion.
C24_KeysIndexValidAfterDelete ==
    Op("shape_key_delete", "FINISHED")
    => IndexValid(scene.skv_props.keys_index, objs["Tgt"].keys)

\* C25: when transfer_uvs raises (no active UV map on the source or on the
\* target, for one), the source's seam flags are what they were before the
\* call, and the target has no "Data Transfer" modifier and no temporary mask
\* vertex group left.
C25_FailedUVTransferLeavesNoTrace ==
    (pc = "raised" /\ p.attributes_to_transfer = "UVS")
    => /\ objs[p.mesh_source].seams = objs0[p.mesh_source].seams
       /\ \A m \in 1..Len(objs["Tgt"].modifiers) : objs["Tgt"].modifiers[m] # "Data Transfer"
       /\ IndexOf(objs["Tgt"].vertex_groups, "Group") = 0

\* C26: after SKV_OT_ShapeKeyDelete and any other sequence of operators, every
\* name in skv_selected is the name of an existing shape key, and no name
\* occurs twice.
C26_SelectionNamesExistOnce ==
    \A i \in 1..Len(key_data.skv_selected) :
        /\ key_data.skv_selected[i] \in Range(KeyNames(objs["Tgt"].keys))
        /\ \A j \in 1..Len(key_data.skv_selected) :
              key_data.skv_selected[j] = key_data.skv_selected[i] => j = i

\* an operator of the panel runs in this step
OpStep == n_ops' = n_ops + 1

\* the key is in the group, in the storage kd
InGroup(kd, keys, name, g) == name \in Range(KeyNames(keys)) /\ kd_get_group(kd, name) = g

\* C27: a group made by SKV_OT_GroupAdd or SKV_OT_CreateGroupFromSelected, under
\* whatever name was accepted ("Init" included), stays in skv_groups with its
\* member keys until SKV_OT_GroupRemove or SKV_OT_GroupRename is run on it: no
\* other operator removes a group, and none but the two that move the
\* selected keys takes a key that still exists out of its group.  (On set-up
\* storage every group but "Main" was made by these operators.)
C27_GroupsStayUntilRemovedOrRenamed ==
    [][(OpStep /\ is_initialized(key_data))
        => \A g \in Range(key_data.skv_groups) :
              (last_op'.name \in {"group_remove", "group_rename"}
                  => g # get_selected_group_name(key_data))
              => /\ g \in Range(key_data'.skv_groups)
                 /\ last_op'.name \notin {"move_selected_to_group", "create_group_from_selected"}
                    => \A k \in 1..Len(objs["Tgt"].keys) :
                          (/\ InGroup(key_data, objs["Tgt"].keys, objs["Tgt"].keys[k].name, g)
                           /\ objs["Tgt"].keys[k].name \in Range(KeyNames(objs'["Tgt"].keys)))
                          => InGroup(key_data', objs'["Tgt"].keys, objs["Tgt"].keys[k].name, g)]_vars

\* how many groups of the storage carry the name
GroupCount(kd, g) == Cardinality({i \in 1..Len(kd.skv_groups) : kd.skv_groups[i] = g})

\* C28: once the key data is initialized the default group "Main" is in
\* skv_groups exactly once and no group name occurs twice, after any sequence of
\* operators; and SKV_OT_GroupRemove and SKV_OT_GroupRename, run while the
\* selected group is the default group, return CANCELLED and leave the storage
\* and the key blocks as they were.
C28_DefaultGroupOnceAndCancelUnchanged ==
    /\ [](is_initialized(key_data)
          => /\ GroupCount(key_data, INIT_GROUP_NAME) = 1
             /\ \A g \in Range(group_names(key_data)) : GroupCount(key_data, g) = 1)
    /\ [][(/\ OpStep
           /\ is_initialized(key_data)
           /\ last_op'.name \in {"group_remove", "group_rename"}
           /\ get_selected_group_name(key_data) = INIT_GROUP_NAME)
          => /\ last_op'.result = "CANCELLED"
             /\ key_data' = key_data
             /\ objs' = objs]_vars

\* C29: when SKV_OT_SelectByAffix returns CANCELLED (no token was given, or
\* no shape key of the current group matches), skv_selected and the affix input
\* (affix_type and affix_value) are the same as before the call.
C29_CancelledSelectByAffixKeepsSelection ==
    [][(OpStep /\ last_op'.name = "select_by_affix" /\ last_op'.result = "CANCELLED")
        => /\ key_data'.skv_selected = key_data.skv_selected
           /\ scene'.skv_props.affix_value = scene.skv_props.affix_value
           /\ scene'.skv_props.affix_type = scene.skv_props.affix_type]_vars

\* C30: after any sequence of group and preset operators skv_group_index is a
\* valid index into skv_groups whenever skv_groups is not empty, and
\* skv_preset_index is a valid index into skv_presets whenever skv_presets is
\* not empty and is 0 when it is empty; this covers the removal of the last
\* element, the rollbacks of SKV_OT_CreateGroupFromSelected and
\* SKV_OT_PresetAddFromSelected, and the removal of groups inside
\* cleanup_legacy_init_group.
C30_IndicesStayInRange ==
    /\ key_data.skv_groups # << >>
       => IndexValid(key_data.skv_group_index, key_data.skv_groups)
    /\ key_data.skv_presets # << >>
       => IndexValid(key_data.skv_preset_index, key_data.skv_presets)
    /\ key_data.skv_presets = << >> => key_data.skv_preset_index = 0

\* the last of two presets has been removed and the index has followed
C30_Witness ==
    /\ Op("preset_remove", "FINISHED")
    /\ Len(key_data.skv_presets) = 1
    /\ key_data.skv_presets[1].name = "P"
    /\ key_data.skv_preset_index = 0
    /\ n_ops = 3

====
